---- MODULE Spec2Model ----
(***************************************************************************)
(* Model of the numeric normalisation and rounding code of the invoice     *)
(* extractor (app/parsers/lear_parser.py, run_lear_pipeline.py,            *)
(* extract_lear_fields.py, export_lear_summary.py).                        *)
(*                                                                         *)
(* A Python str is a sequence of one-character strings.  A Python value is *)
(* a record [kind, s, neg, ip, fp]: kind names the Python type, s holds    *)
(* the characters of a str, and a number is the sign neg, the digits of    *)
(* the integer part ip and the digits of the fractional part fp, so that   *)
(* arithmetic is exact and of arbitrary precision.                         *)
(***************************************************************************)
EXTENDS Integers, Sequences, FiniteSets, TLC

VARIABLES raw, pc, val, out, text, rec, parsers, pdf, queue, results

vars == <<raw, pc, val, out, text, rec, parsers, pdf, queue, results>>

\* the variables of the calls on whole texts and documents
docvars == <<text, rec, parsers, pdf, queue, results>>

-----------------------------------------------------------------------------
(* Bounds of the model *)

\* longest separator-shape token (digit "1", '.' and ',')
MaxLen == 8
\* most separators in a separator-shape token
MaxSeps == 3
\* longest token over the raw alphabet (sign, space, junk character)
MaxRawLen == 4
\* longest numeric token (digits "0" and "5", at most one separator)
MaxNumLen == 7

-----------------------------------------------------------------------------
(* Characters *)

Digits == {"0", "1", "2", "3", "4", "5", "6", "7", "8", "9"}

DigitSeq == <<"0", "1", "2", "3", "4", "5", "6", "7", "8", "9">>

\* the value of a digit character
DigitVal(c) == (CHOOSE i \in 1..10 : DigitSeq[i] = c) - 1

\* the digit character of a value 0..9
DigitChr(n) == DigitSeq[n + 1]

\* the whitespace of str.strip and of \s
Whitespace == {" ", "\t", "\n", "\r"}

-----------------------------------------------------------------------------
(* Python values *)

None == [kind |-> "None", s |-> <<>>, neg |-> FALSE, ip |-> <<>>, fp |-> <<>>]

ValueError == [kind |-> "ValueError", s |-> <<>>, neg |-> FALSE, ip |-> <<>>, fp |-> <<>>]

PyStr(s) == [kind |-> "str", s |-> s, neg |-> FALSE, ip |-> <<>>, fp |-> <<>>]

RECURSIVE StripLeadingZeros(_)
StripLeadingZeros(ds) ==
  IF ds # <<>> /\ Head(ds) = "0" THEN StripLeadingZeros(Tail(ds)) ELSE ds

RECURSIVE StripTrailingZeros(_)
StripTrailingZeros(ds) ==
  IF ds # <<>> /\ ds[Len(ds)] = "0"
  THEN StripTrailingZeros(SubSeq(ds, 1, Len(ds) - 1))
  ELSE ds

\* a binary float, by its value: 1.50 and 1.5 are the same float, -0.0 == 0.0
PyFloat(neg, ip, fp) ==
  LET i == StripLeadingZeros(ip)
      f == StripTrailingZeros(fp)
  IN [kind |-> "float", s |-> <<>>, neg |-> (neg /\ (i \o f) # <<>>), ip |-> i, fp |-> f]

\* a Python int
PyInt(neg, ip) ==
  LET i == StripLeadingZeros(ip)
  IN [kind |-> "int", s |-> <<>>, neg |-> (neg /\ i # <<>>), ip |-> i, fp |-> <<>>]

\* a decimal.Decimal: sign, coefficient and exponent (Len(fp)) are kept
PyDecimal(neg, ip, fp) ==
  [kind |-> "Decimal", s |-> <<>>, neg |-> neg, ip |-> StripLeadingZeros(ip), fp |-> fp]

-----------------------------------------------------------------------------
(* str methods *)

RECURSIVE lstrip(_)
lstrip(s) == IF s # <<>> /\ Head(s) \in Whitespace THEN lstrip(Tail(s)) ELSE s

RECURSIVE rstrip(_)
rstrip(s) ==
  IF s # <<>> /\ s[Len(s)] \in Whitespace THEN rstrip(SubSeq(s, 1, Len(s) - 1)) ELSE s

strip(s) == rstrip(lstrip(s))

\* s.replace(old, new) for a one-character old; new is a str (possibly empty)
RECURSIVE replace(_, _, _)
replace(s, old, new) ==
  IF s = <<>> THEN <<>>
  ELSE (IF Head(s) = old THEN new ELSE <<Head(s)>>) \o replace(Tail(s), old, new)

\* c in s
contains(s, c) == \E i \in 1..Len(s) : s[i] = c

\* s.count(c)
count(s, c) == Cardinality({i \in 1..Len(s) : s[i] = c})

\* s.find(c): 0-based index of the first occurrence, -1 when there is none
find(s, c) ==
  IF contains(s, c) THEN (CHOOSE i \in 1..Len(s) : s[i] = c /\ \A j \in 1..(i - 1) : s[j] # c) - 1
  ELSE -1

\* s.rfind(c): 0-based index of the last occurrence, -1 when there is none
rfind(s, c) ==
  IF contains(s, c) THEN (CHOOSE i \in 1..Len(s) : s[i] = c /\ \A j \in (i + 1)..Len(s) : s[j] # c) - 1
  ELSE -1

\* s.split(c, 1)[0] for a str that contains c
split_left(s, c) == SubSeq(s, 1, find(s, c))

\* s.split(c, 1)[1] for a str that contains c
split_right(s, c) == SubSeq(s, find(s, c) + 2, Len(s))

\* s.isdigit()
isdigit(s) == s # <<>> /\ \A i \in 1..Len(s) : s[i] \in Digits

\* re.sub(r"[^\d,\.\-]+", "", s)
RECURSIVE NUM_CLEAN_RE_sub(_)
NUM_CLEAN_RE_sub(s) ==
  IF s = <<>> THEN <<>>
  ELSE (IF Head(s) \in Digits \cup {",", ".", "-"} THEN <<Head(s)>> ELSE <<>>)
       \o NUM_CLEAN_RE_sub(Tail(s))

\* the longest prefix of s matched by the capture group ([\d\.,]+)
RECURSIVE NumberRun(_)
NumberRun(s) ==
  IF s # <<>> /\ Head(s) \in Digits \cup {",", "."}
  THEN <<Head(s)>> \o NumberRun(Tail(s))
  ELSE <<>>

-----------------------------------------------------------------------------
(* float(s) and Decimal(s) *)

\* the numeric literal both constructors accept over the characters of a
\* token: surrounding whitespace, an optional '-', digits with at most one
\* '.', at least one digit
IsNumberLiteral(s) ==
  LET t == strip(s)
      u == IF t # <<>> /\ Head(t) = "-" THEN Tail(t) ELSE t
  IN /\ \A i \in 1..Len(u) : u[i] \in Digits \cup {"."}
     /\ count(u, ".") <= 1
     /\ \E i \in 1..Len(u) : u[i] \in Digits

LiteralNeg(s) == LET t == strip(s) IN t # <<>> /\ Head(t) = "-"

LiteralInt(s) ==
  LET t == strip(s)
      u == IF t # <<>> /\ Head(t) = "-" THEN Tail(t) ELSE t
  IN IF contains(u, ".") THEN split_left(u, ".") ELSE u

LiteralFrac(s) ==
  LET t == strip(s)
      u == IF t # <<>> /\ Head(t) = "-" THEN Tail(t) ELSE t
  IN IF contains(u, ".") THEN split_right(u, ".") ELSE <<>>

\* float(s): the float, or ValueError
python_float(s) ==
  IF IsNumberLiteral(s) THEN PyFloat(LiteralNeg(s), LiteralInt(s), LiteralFrac(s))
  ELSE ValueError

\* Decimal(s): the Decimal, or InvalidOperation (reported as ValueError)
python_Decimal(s) ==
  IF IsNumberLiteral(s) THEN PyDecimal(LiteralNeg(s), LiteralInt(s), LiteralFrac(s))
  ELSE ValueError

-----------------------------------------------------------------------------
(* LearInvoiceParser._normalize_number_str (app/parsers/lear_parser.py) *)

\* faulty variant: the separator that occurs first decides (find for rfind)
both_separators_first(s) ==
  IF find(s, ",") > find(s, ".")
  THEN replace(replace(s, ".", <<>>), ",", <<".">>)
  ELSE replace(s, ",", <<>>)

\* both '.' and ',' occur: the separator that occurs last is the decimal one
both_separators(s) ==
  IF rfind(s, ",") > rfind(s, ".")
  THEN replace(replace(s, ".", <<>>), ",", <<".">>)
  ELSE replace(s, ",", <<>>)

\* faulty variant: a comma is decimal only before 1 or 2 digits
only_commas_two_decimals(s) ==
  IF count(s, ",") > 1 THEN replace(s, ",", <<>>)
  ELSE LET left == split_left(s, ",")
           right == split_right(s, ",")
       IN IF 1 <= Len(right) /\ Len(right) <= 2
          THEN replace(left, ".", <<>>) \o <<".">> \o right
          ELSE replace(left \o right, ".", <<>>)

\* faulty variant: the upper limit of the decimal tail is exclusive
only_commas_below_four(s) ==
  IF count(s, ",") > 1 THEN replace(s, ",", <<>>)
  ELSE LET left == split_left(s, ",")
           right == split_right(s, ",")
       IN IF 1 <= Len(right) /\ Len(right) < 4
          THEN replace(left, ".", <<>>) \o <<".">> \o right
          ELSE replace(left \o right, ".", <<>>)

\* only ',' occurs
only_commas(s) ==
  IF count(s, ",") > 1 THEN replace(s, ",", <<>>)
  ELSE LET left == split_left(s, ",")
           right == split_right(s, ",")
       IN IF 1 <= Len(right) /\ Len(right) <= 4
          THEN replace(left, ".", <<>>) \o <<".">> \o right
          ELSE replace(left \o right, ".", <<>>)

\* faulty variant: a single dot is always kept
only_dots_single_kept(s) ==
  IF count(s, ".") > 1 THEN replace(s, ".", <<>>) ELSE s

\* faulty variant: the integer part must be shorter than 3
only_dots_short_left(s) ==
  IF count(s, ".") > 1 THEN replace(s, ".", <<>>)
  ELSE LET left == split_left(s, ".")
           right == split_right(s, ".")
       IN IF Len(right) = 3 /\ Len(left) < 3 THEN left \o right ELSE s

\* faulty variant: several dots are kept
only_dots_many_kept(s) ==
  IF count(s, ".") > 1 THEN s
  ELSE LET left == split_left(s, ".")
           right == split_right(s, ".")
       IN IF Len(right) = 3 /\ Len(left) <= 3 THEN left \o right ELSE s

\* only '.' occurs
only_dots(s) ==
  IF count(s, ".") > 1 THEN replace(s, ".", <<>>)
  ELSE LET left == split_left(s, ".")
           right == split_right(s, ".")
       IN IF Len(right) = 3 /\ Len(left) <= 3 THEN left \o right ELSE s

\* the separator resolution of a cleaned, non-empty token
resolve_separators(s) ==
  IF contains(s, ".") /\ contains(s, ",") THEN both_separators(s)
  ELSE IF contains(s, ",") /\ ~contains(s, ".") THEN only_commas(s)
  ELSE IF contains(s, ".") /\ ~contains(s, ",") THEN only_dots(s)
  ELSE s

\* the cleaned token is empty or a bare sign or separator
is_bare(s) == s = <<>> \/ s \in {<<"-">>, <<".">>, <<",">>}

normalize_number_str(raw_) ==
  IF raw_ = None THEN None
  ELSE LET s0 == replace(strip(raw_.s), " ", <<>>)
       IN IF s0 = <<>> THEN None
          ELSE LET s == NUM_CLEAN_RE_sub(s0)
               IN IF is_bare(s) THEN None ELSE PyStr(resolve_separators(s))

\* try: return float(x) except ValueError: return None
none_if_ValueError(f) == IF f = ValueError THEN None ELSE f

\* the float of a normalized string: None for None, "" and ValueError
float_of_norm(norm) ==
  IF norm = None \/ norm.s = <<>> THEN None ELSE none_if_ValueError(python_float(norm.s))

\* faulty variant: the ValueError of float() is not caught
parse_amount_str_uncaught(raw_) ==
  LET norm == normalize_number_str(raw_)
  IN IF norm = None \/ norm.s = <<>> THEN None ELSE python_float(norm.s)

\* LearInvoiceParser._parse_amount_str
parse_amount_str(raw_) == float_of_norm(normalize_number_str(raw_))

-----------------------------------------------------------------------------
(* _normalize_number_str (run_lear_pipeline.py) *)

pipeline_normalize_number_str(x) ==
  IF x = None THEN None
  ELSE LET s0 == strip(x.s)
       IN IF s0 = <<>> THEN None
          ELSE LET s == NUM_CLEAN_RE_sub(replace(s0, " ", <<>>))
               IN IF is_bare(s) THEN None ELSE PyStr(resolve_separators(s))

-----------------------------------------------------------------------------
(* Rounding of exact decimal digit strings *)

\* the digit string plus one
RECURSIVE Inc(_)
Inc(ds) ==
  IF ds = <<>> THEN <<"1">>
  ELSE LET front == SubSeq(ds, 1, Len(ds) - 1)
           last == ds[Len(ds)]
       IN IF last = "9" THEN Inc(front) \o <<"0">>
          ELSE front \o <<DigitChr(DigitVal(last) + 1)>>

Zeros(n) == [i \in 1..n |-> "0"]

\* decimal.ROUND_HALF_UP: the discarded digits are at least one half
ROUND_HALF_UP(kept, rest) == DigitVal(rest[1]) >= 5

\* the rounding of the built-in round(): half to even
ROUND_HALF_EVEN(kept, rest) ==
  LET first == DigitVal(rest[1])
      tie == first = 5 /\ \A i \in 2..Len(rest) : rest[i] = "0"
      odd == kept # <<>> /\ DigitVal(kept[Len(kept)]) % 2 = 1
  IN first > 5 \/ (first = 5 /\ ~tie) \/ (tie /\ odd)

\* the digits ip.fp rounded to k fractional digits: <<integer digits, k digits>>;
\* up tells whether the magnitude is rounded up
RoundDigits(ip, fp, k, up) ==
  IF Len(fp) <= k THEN <<ip, fp \o Zeros(k - Len(fp))>>
  ELSE LET kept == ip \o SubSeq(fp, 1, k)
           all == IF up THEN Inc(kept) ELSE kept
       IN <<SubSeq(all, 1, Len(all) - k), SubSeq(all, Len(all) - k + 1, Len(all))>>

\* d.quantize(Decimal("1").scaleb(-k), rounding=ROUND_HALF_UP)
quantize_half_up(d, k) ==
  LET up == Len(d.fp) > k /\ ROUND_HALF_UP(d.ip \o SubSeq(d.fp, 1, k), SubSeq(d.fp, k + 1, Len(d.fp)))
      r == RoundDigits(d.ip, d.fp, k, up)
  IN PyDecimal(d.neg, r[1], r[2])

\* round(x) of a float x: an int
python_round(x) ==
  LET up == x.fp # <<>> /\ ROUND_HALF_EVEN(x.ip, x.fp)
      r == RoundDigits(x.ip, x.fp, 0, up)
  IN PyInt(x.neg, r[1])

\* int(d) of an integral Decimal
python_int(d) == PyInt(d.neg, d.ip)

\* Decimal(str(x)) of an int or float x: str writes an integral float with ".0"
Decimal_of_str(x) ==
  IF x.kind = "float" THEN PyDecimal(x.neg, x.ip, IF x.fp = <<>> THEN <<"0">> ELSE x.fp)
  ELSE PyDecimal(x.neg, x.ip, <<>>)

\* format(d, "f") of a Decimal
format_f(d) ==
  (IF d.neg THEN <<"-">> ELSE <<>>)
  \o (IF d.ip = <<>> THEN <<"0">> ELSE d.ip)
  \o (IF d.fp = <<>> THEN <<>> ELSE <<".">> \o d.fp)

\* str(i) of an int
str_int(i) == (IF i.neg THEN <<"-">> ELSE <<>>) \o (IF i.ip = <<>> THEN <<"0">> ELSE i.ip)

-----------------------------------------------------------------------------
(* Field extraction of LearInvoiceParser: the token follows the label *)

\* _extract_first(r"<label>\s*([\d\.,]+)", label + token): group 1, or None
extract_first(token) ==
  LET g == NumberRun(lstrip(token))
  IN IF g = <<>> THEN None ELSE PyStr(g)

\* LearInvoiceParser._extract_amount
extract_amount(token) ==
  LET r == extract_first(token)
  IN IF r = None THEN None ELSE parse_amount_str(r)

\* LearInvoiceParser._extract_int
extract_int(token) ==
  LET v == extract_amount(token)
  IN IF v = None THEN None ELSE python_round(v)

\* extra["net_weight"] / extra["gross_weight"] of LearInvoiceParser.parse
lear_parse_weight(token) == extract_amount(token)

\* "\n".join(lines)
RECURSIVE Join(_)
Join(lines) ==
  IF lines = <<>> THEN <<>>
  ELSE IF Len(lines) = 1 THEN lines[1]
  ELSE lines[1] \o <<"\n">> \o Join(Tail(lines))

-----------------------------------------------------------------------------
(* Regular expressions over a whole text *)

UpperCase ==
  <<"A", "B", "C", "D", "E", "F", "G", "H", "I", "J", "K", "L", "M",
    "N", "O", "P", "Q", "R", "S", "T", "U", "V", "W", "X", "Y", "Z">>

LowerCase ==
  <<"a", "b", "c", "d", "e", "f", "g", "h", "i", "j", "k", "l", "m",
    "n", "o", "p", "q", "r", "s", "t", "u", "v", "w", "x", "y", "z">>

Letters == {UpperCase[i] : i \in 1..26} \cup {LowerCase[i] : i \in 1..26}

\* str.lower of one character
lower_chr(c) ==
  IF \E i \in 1..26 : UpperCase[i] = c
  THEN LowerCase[CHOOSE i \in 1..26 : UpperCase[i] = c]
  ELSE c

\* str.lower
lower(s) == [i \in 1..Len(s) |-> lower_chr(s[i])]

\* the literal lit stands at position i of s; ic is re.IGNORECASE
LitAt(s, i, lit, ic) ==
  /\ i >= 1
  /\ i + Len(lit) - 1 <= Len(s)
  /\ \A k \in 1..Len(lit) :
       IF ic THEN lower_chr(s[i + k - 1]) = lower_chr(lit[k])
       ELSE s[i + k - 1] = lit[k]

\* the position after the longest run of characters of A that starts at i
RECURSIVE SkipIn(_, _, _)
SkipIn(s, i, A) == IF i <= Len(s) /\ s[i] \in A THEN SkipIn(s, i + 1, A) ELSE i

\* the position after the longest run of characters not of A from i: \S+
RECURSIVE SkipNotIn(_, _, _)
SkipNotIn(s, i, A) == IF i <= Len(s) /\ s[i] \notin A THEN SkipNotIn(s, i + 1, A) ELSE i

\* \w: letters, digits and '_'
WordChars == Letters \cup Digits \cup {"_"}

\* \b at position i of s (between s[i-1] and s[i])
WordBoundary(s, i) ==
  LET before == i > 1 /\ i - 1 <= Len(s) /\ s[i - 1] \in WordChars
      after  == i >= 1 /\ i <= Len(s) /\ s[i] \in WordChars
  IN before # after

Min(S) == CHOOSE x \in S : \A y \in S : x <= y

Max(S) == CHOOSE x \in S : \A y \in S : x >= y

NumChars == Digits \cup {".", ","}

\* the position after the capture group that starts at j, j when the group
\* does not match there:  num ([\d\.,]+), word (\S+), alpha3 ([A-Z]{3} under
\* IGNORECASE), dm (DM\d+ under IGNORECASE)
CaptureEnd(group, s, j) ==
  CASE group = "num"    -> SkipIn(s, j, NumChars)
    [] group = "word"   -> SkipNotIn(s, j, Whitespace)
    [] group = "alpha3" -> IF SkipIn(s, j, Letters) >= j + 3 THEN j + 3 ELSE j
    [] group = "dm"     ->
         IF LitAt(s, j, <<"D", "M">>, TRUE) /\ SkipIn(s, j + 2, Digits) > j + 2
         THEN SkipIn(s, j + 2, Digits) ELSE j

\* where the group starts when the pattern <label>\s*(group) or, with
\* min_ws = 1, <label>\s+(group) matches at position i; 0 when it does not
GroupStart(label, min_ws, group, s, i) ==
  IF ~LitAt(s, i, label, TRUE) THEN 0
  ELSE LET j == SkipIn(s, i + Len(label), Whitespace)
       IN IF j - (i + Len(label)) >= min_ws /\ CaptureEnd(group, s, j) > j
          THEN j ELSE 0

\* LearInvoiceParser._extract_first(r"<label>\s*(group)", text): group 1 of
\* the leftmost match, None without a match
lear_extract_first(label, min_ws, group, s) ==
  LET hits == {i \in 1..Len(s) : GroupStart(label, min_ws, group, s, i) > 0}
  IN IF hits = {} THEN None
     ELSE LET j == GroupStart(label, min_ws, group, s, Min(hits))
          IN PyStr(SubSeq(s, j, CaptureEnd(group, s, j) - 1))

\* LearInvoiceParser._extract_amount(pattern, text)
lear_amount_of(r) == IF r = None THEN None ELSE parse_amount_str(r)

lear_extract_amount(label, min_ws, s) ==
  lear_amount_of(lear_extract_first(label, min_ws, "num", s))

\* LearInvoiceParser._extract_int(pattern, text)
lear_int_of(v) == IF v = None THEN None ELSE python_round(v)

lear_extract_int(label, min_ws, s) == lear_int_of(lear_extract_amount(label, min_ws, s))

-----------------------------------------------------------------------------
(* LearInvoiceParser: the labels of its patterns *)

L_InvoiceNumber ==
  <<"I", "n", "v", "o", "i", "c", "e", " ", "N", "u", "m", "b", "e", "r", ":">>

L_TotalInvoices ==
  <<"T", "o", "t", "a", "l", " ", "I", "n", "v", "o", "i", "c", "e", "s">>

L_TaxableAmount ==
  <<"T", "a", "x", "a", "b", "l", "e", " ", "A", "m", "o", "u", "n", "t">>

L_VendorCode ==
  <<"V", "e", "n", "d", "o", "r", " ", "C", "o", "d", "e", ":">>

L_CustomerCode ==
  <<"C", "u", "s", "t", "o", "m", "e", "r", " ", "C", "o", "d", "e", ":">>

L_NumberOfPages ==
  <<"N", "u", "m", "b", "e", "r", " ", "O", "f", " ", "P", "a", "g", "e", "s", ":">>

L_NumberOfLines ==
  <<"N", "u", "m", "b", "e", "r", " ", "o", "f", " ", "L", "i", "n", "e", "s", ":">>

L_Curency ==
  <<"C", "u", "r", "e", "n", "c", "y">>

L_NetWeight ==
  <<"N", "e", "t", " ", "W", "e", "i", "g", "h", "t", ":">>

L_GrosWeight ==
  <<"G", "r", "o", "s", " ", "W", "e", "i", "g", "h", "t", ":">>

L_Palets ==
  <<"P", "a", "l", "e", "t", "s", ":">>

UNKNOWN == <<"U", "N", "K", "N", "O", "W", "N">>

-----------------------------------------------------------------------------
(* LearInvoiceParser._extract_invoice_number *)

\* re.fullmatch(r"DM\d{6}", h)
IsDM6(h) == Len(h) = 8 /\ h[1] = "D" /\ h[2] = "M" /\ \A k \in 3..8 : h[k] \in Digits

\* \b(DM\d{6})\b matches at position i
BodyAt(s, i) ==
  /\ i + 7 <= Len(s)
  /\ IsDM6(SubSeq(s, i, i + 7))
  /\ WordBoundary(s, i)
  /\ WordBoundary(s, i + 8)

\* re.findall(r"\b(DM\d{6})\b", text)[0], None when the list is empty
first_body(s) ==
  LET hits == {i \in 1..Len(s) : BodyAt(s, i)}
  IN IF hits = {} THEN None ELSE PyStr(SubSeq(s, Min(hits), Min(hits) + 7))

\* faulty variant: the body occurrence wins over a well-formed header
invoice_number_body_first(header, body) ==
  IF body # None THEN body
  ELSE IF header # None THEN header
  ELSE PyStr(UNKNOWN)

\* the four returns of _extract_invoice_number
invoice_number_of(header, body) ==
  IF header # None /\ IsDM6(header.s) THEN header
  ELSE IF body # None THEN body
  ELSE IF header # None THEN header
  ELSE PyStr(UNKNOWN)

extract_invoice_number(s) ==
  invoice_number_of(lear_extract_first(L_InvoiceNumber, 0, "dm", s), first_body(s))

-----------------------------------------------------------------------------
(* LearInvoiceParser.parse: issue date *)

\* the position after a match of \b(\d{1,2}/\d{1,2}/\d{4})\b at i, 0 without
DateEnd(s, i) ==
  LET a == SkipIn(s, i, Digits)
      b == SkipIn(s, a + 1, Digits)
  IN IF /\ WordBoundary(s, i)
        /\ a - i \in {1, 2}
        /\ LitAt(s, a, <<"/">>, FALSE)
        /\ b - (a + 1) \in {1, 2}
        /\ LitAt(s, b, <<"/">>, FALSE)
        /\ b + 4 <= Len(s)
        /\ \A k \in (b + 1)..(b + 4) : s[k] \in Digits
        /\ WordBoundary(s, b + 5)
     THEN b + 5 ELSE 0

\* faulty variant: the last date of the text
lear_issue_date_last(s) ==
  LET hits == {i \in 1..Len(s) : DateEnd(s, i) > 0}
  IN IF hits = {} THEN PyStr(UNKNOWN)
     ELSE PyStr(SubSeq(s, Max(hits), DateEnd(s, Max(hits)) - 1))

\* _extract_first(r"\b(\d{1,2}/\d{1,2}/\d{4})\b", text) or "UNKNOWN"
lear_issue_date(s) ==
  LET hits == {i \in 1..Len(s) : DateEnd(s, i) > 0}
  IN IF hits = {} THEN PyStr(UNKNOWN)
     ELSE PyStr(SubSeq(s, Min(hits), DateEnd(s, Min(hits)) - 1))

-----------------------------------------------------------------------------
(* LearInvoiceParser.parse: line items *)

\* the starts of up to n whitespace-separated columns from position i
RECURSIVE Columns(_, _, _)
Columns(s, i, n) ==
  IF n = 0 \/ i > Len(s) THEN <<>>
  ELSE <<i>> \o Columns(s, SkipIn(s, SkipNotIn(s, i, Whitespace), Whitespace), n - 1)

\* the column that starts at position i
Column(s, i) == SubSeq(s, i, SkipNotIn(s, i, Whitespace) - 1)

\* \d{2}/\d{2}/\d{2}
IsShortDate(w) ==
  /\ Len(w) = 8
  /\ \A k \in {1, 2, 4, 5, 7, 8} : w[k] \in Digits
  /\ w[3] = "/" /\ w[6] = "/"

\* DM\d+ under IGNORECASE
IsDMRef(w) == Len(w) >= 3 /\ LitAt(w, 1, <<"D", "M">>, TRUE) /\ isdigit(SubSeq(w, 3, Len(w)))

\* [\d\.,]+
IsNum(w) == w # <<>> /\ \A k \in 1..Len(w) : w[k] \in NumChars

\* the number of columns of line_pattern
RowColumns == 14

\* ^ under MULTILINE
LineStart(s, p) == p = 1 \/ (p > 1 /\ p <= Len(s) /\ s[p - 1] = "\n")

\* the columns of a match of line_pattern that starts at p, <<>> without
RowAt(s, p) ==
  LET c == Columns(s, SkipIn(s, p, Whitespace), RowColumns)
      w(k) == Column(s, c[k])
  IN IF /\ Len(c) = RowColumns
        /\ isdigit(w(1))
        /\ IsShortDate(w(2))
        /\ IsDMRef(w(3))
        /\ isdigit(w(9))
        /\ lower(w(10)) = <<"p">>
        /\ IsNum(w(11))
        /\ isdigit(w(12))
        /\ IsNum(w(13))
        /\ SkipIn(s, c[14], Digits) > c[14]
     THEN c ELSE <<>>

\* the position after the match that starts at p
RowEnd(s, p) == LET c == RowAt(s, p) IN IF c = <<>> THEN 0 ELSE SkipIn(s, c[14], Digits)

Zero == PyFloat(FALSE, <<>>, <<>>)

\* x or 0.0
or_zero(x) == IF x = None THEN Zero ELSE x

\* the InvoiceLine of the match that starts at p
InvoiceLine(s, p) ==
  LET c == RowAt(s, p)
  IN [description |-> Column(s, c[8]),
      quantity    |-> python_float(Column(s, c[9])),
      unit_price  |-> or_zero(parse_amount_str(PyStr(Column(s, c[11])))),
      total       |-> or_zero(parse_amount_str(PyStr(Column(s, c[13]))))]

\* for m in line_pattern.finditer(text): the lines of the matches from
\* position from on, leftmost first, none overlapping
RECURSIVE finditer_lines(_, _)
finditer_lines(s, from) ==
  LET starts == {p \in from..Len(s) : LineStart(s, p) /\ RowAt(s, p) # <<>>}
  IN IF starts = {} THEN <<>>
     ELSE <<InvoiceLine(s, Min(starts))>> \o finditer_lines(s, RowEnd(s, Min(starts)))

-----------------------------------------------------------------------------
(* LearInvoiceParser.parse: totals *)

\* x + y + carry of two digit sequences of one length, one digit longer
RECURSIVE AddDigits(_, _, _)
AddDigits(x, y, carry) ==
  IF x = <<>> THEN <<DigitChr(carry)>>
  ELSE LET n == Len(x)
           d == DigitVal(x[n]) + DigitVal(y[n]) + carry
       IN AddDigits(SubSeq(x, 1, n - 1), SubSeq(y, 1, n - 1), d \div 10)
            \o <<DigitChr(d % 10)>>

\* a + b of two floats that are not negative, as a decimal sum
float_add(a, b) ==
  LET nf == Max({Len(a.fp), Len(b.fp)})
      ni == Max({Len(a.ip), Len(b.ip)})
      x  == Zeros(ni - Len(a.ip)) \o a.ip \o a.fp \o Zeros(nf - Len(a.fp))
      y  == Zeros(ni - Len(b.ip)) \o b.ip \o b.fp \o Zeros(nf - Len(b.fp))
      z  == AddDigits(x, y, 0)
  IN PyFloat(FALSE, SubSeq(z, 1, ni + 1), SubSeq(z, ni + 2, ni + nf + 1))

\* sum(line.total for line in lines) if lines else 0.0
RECURSIVE line_total_sum(_)
line_total_sum(lines) ==
  IF lines = <<>> THEN Zero
  ELSE float_add(line_total_sum(SubSeq(lines, 1, Len(lines) - 1)), lines[Len(lines)].total)

\* x > 0
IsPositive(x) == ~x.neg /\ (x.ip \o x.fp) # <<>>

\* faulty variant: the reported total is taken before the sum of the lines
lear_total_reported_first(sum, total_invoices_reported) ==
  IF total_invoices_reported # None THEN total_invoices_reported
  ELSE IF IsPositive(sum) THEN sum
  ELSE Zero

\* the total of InvoiceTotals
lear_total(sum, total_invoices_reported) ==
  IF IsPositive(sum) THEN sum
  ELSE IF total_invoices_reported # None THEN total_invoices_reported
  ELSE Zero

-----------------------------------------------------------------------------
(* LearInvoiceParser.parse *)

\* the decimal digits of a natural number
RECURSIVE NatDigits(_)
NatDigits(n) == IF n < 10 THEN <<DigitChr(n)>> ELSE NatDigits(n \div 10) \o <<DigitChr(n % 10)>>

\* len(x) as a Python int
python_len(x) == PyInt(FALSE, NatDigits(Len(x)))

\* the values parse looks up for the extra dict, None when it finds none
lear_extra_values(s) ==
  [vendor_code             |-> lear_extract_first(L_VendorCode, 0, "word", s),
   customer_code           |-> lear_extract_first(L_CustomerCode, 0, "word", s),
   number_of_pages         |-> lear_extract_int(L_NumberOfPages, 0, s),
   number_of_lines         |-> lear_extract_int(L_NumberOfLines, 0, s),
   parsed_lines_count      |-> python_len(finditer_lines(s, 1)),
   taxable_amount_reported |-> lear_extract_amount(L_TaxableAmount, 1, s),
   total_invoices_reported |-> lear_extract_amount(L_TotalInvoices, 1, s),
   currency_reported       |-> lear_extract_first(L_Curency, 1, "alpha3", s),
   net_weight              |-> lear_extract_amount(L_NetWeight, 0, s),
   gross_weight            |-> lear_extract_amount(L_GrosWeight, 0, s),
   pallets                 |-> lear_extract_int(L_Palets, 0, s)]

\* the extra dict: a key is set only when its value was found
lear_extra_of(v) == [k \in {key \in DOMAIN v : v[key] # None} |-> v[k]]

lear_extra(s) == lear_extra_of(lear_extra_values(s))

LearSupplier ==
  [name |-> "Lear Automotive Morocco SAS", vat |-> "None",
   address |-> "Lot 102B/2 Zone Franche, Tanger, Morocco"]

LearCustomer ==
  [name |-> "Lear Automotive Morocco SAS", vat |-> "ESN204102A",
   address |-> "Zone Franche d Exportation C/ Futers, 54, Valls 43800 (Tarragona)"]

\* LearInvoiceParser.parse(text): the Invoice
\* the Invoice of the values parse has gathered
LearInvoice(invoice_number, issue_date, lines, total, raw_text, extra) ==
  [kind           |-> "Invoice",
   invoice_number |-> invoice_number,
   issue_date     |-> issue_date,
   supplier       |-> LearSupplier,
   customer       |-> LearCustomer,
   lines          |-> lines,
   totals         |-> [subtotal |-> total, tax |-> Zero, total |-> total, currency |-> "EUR"],
   raw_text       |-> raw_text,
   extra          |-> extra]

\* the total of the lines found, or the reported one
lear_total_of(lines, total_invoices_reported) ==
  lear_total(line_total_sum(lines), total_invoices_reported)

\* the body of parse once the line items and the extra values are found
parse_with(s, lines, v) ==
  LearInvoice(extract_invoice_number(s), lear_issue_date(s), lines,
              lear_total_of(lines, v.total_invoices_reported), s, lear_extra_of(v))

\* LearInvoiceParser.parse(text): the Invoice
LearInvoiceParser_parse(s) == parse_with(s, finditer_lines(s, 1), lear_extra_values(s))

-----------------------------------------------------------------------------
(* Template dispatch: BaseParser.can_handle and get_parser *)

\* an exception that leaves the call
Raise(exception) == [kind |-> "raised", exception |-> exception]

\* k in s
IsSubstring(k, s) == k = <<>> \/ \E i \in 1..Len(s) : LitAt(s, i, k, FALSE)

\* a parser class, by its name and its KEYWORDS
LearInvoiceParser ==
  [name |-> "LearInvoiceParser",
   KEYWORDS |-> << <<"L", "e", "a", "r">>,
                   <<"I", "n", "v", "o", "i", "c", "e", " ", "N", "u", "m", "b", "e", "r">> >>]

\* the registry _PARSERS
PARSERS == <<LearInvoiceParser>>

\* BaseParser.can_handle
can_handle(cls, s) ==
  \A n \in 1..Len(cls.KEYWORDS) : IsSubstring(lower(cls.KEYWORDS[n]), lower(s))

\* faulty variant: the last parser that can handle the text
get_parser_last(registry, s) ==
  LET able == {n \in 1..Len(registry) : can_handle(registry[n], s)}
  IN IF able = {} THEN Raise("ValueError")
     ELSE [kind |-> "parser", cls |-> registry[Max(able)]]

\* get_parser over the registry: the first parser class that can handle the
\* text, ValueError when the loop ends
get_parser(registry, s) ==
  LET able == {n \in 1..Len(registry) : can_handle(registry[n], s)}
  IN IF able = {} THEN Raise("ValueError")
     ELSE [kind |-> "parser", cls |-> registry[Min(able)]]

-----------------------------------------------------------------------------
(* extract_pdf_text (app/pdf_extractor.py) *)

\* A document is what its two extractors give for it: pdfplumber the joined
\* page texts or an exception, pypdf the same, or None when PdfReader could
\* not be imported.

\* faulty variant: the text of pypdf is returned whatever it holds
extract_pdf_text_any_fallback(document) ==
  IF document.pdfplumber.kind = "str" /\ strip(document.pdfplumber.s) # <<>>
  THEN document.pdfplumber
  ELSE IF document.pypdf = None THEN Raise("RuntimeError")
  ELSE IF document.pypdf.kind = "raised" THEN Raise("RuntimeError")
  ELSE document.pypdf

extract_pdf_text(document) ==
  IF document.pdfplumber.kind = "str" /\ strip(document.pdfplumber.s) # <<>>
  THEN document.pdfplumber
  ELSE IF document.pypdf = None THEN Raise("RuntimeError")
  ELSE IF document.pypdf.kind = "raised" THEN Raise("RuntimeError")
  ELSE IF strip(document.pypdf.s) # <<>> THEN document.pypdf
  ELSE Raise("RuntimeError")

\* the extractors extract_pdf_text opens, in the order of the calls: pypdf
\* only after pdfplumber gave no text, and only when PdfReader was imported
extractors_tried(document) ==
  IF document.pdfplumber.kind = "str" /\ strip(document.pdfplumber.s) # <<>>
  THEN <<"pdfplumber">>
  ELSE IF document.pypdf = None THEN <<"pdfplumber">>
  ELSE <<"pdfplumber", "pypdf">>

-----------------------------------------------------------------------------
(* normalize_text (app/normalizer.py) *)

\* re.sub(r"(.)\1{2,}", _collapse, s): a run of three or more of one
\* character, no newline, becomes the character
RECURSIVE collapse_repeats(_)
collapse_repeats(s) ==
  IF s = <<>> THEN <<>>
  ELSE LET e == SkipIn(s, 1, {Head(s)})
       IN IF Head(s) # "\n" /\ e > 3
          THEN <<Head(s)>> \o collapse_repeats(SubSeq(s, e, Len(s)))
          ELSE <<Head(s)>> \o collapse_repeats(Tail(s))

\* re.sub of a run of characters of A by the string new; a run has at least
\* least characters
RECURSIVE sub_runs(_, _, _, _)
sub_runs(s, A, least, new) ==
  IF s = <<>> THEN <<>>
  ELSE LET e == SkipIn(s, 1, A)
       IN IF e - 1 >= least
          THEN new \o sub_runs(SubSeq(s, e, Len(s)), A, least, new)
          ELSE <<Head(s)>> \o sub_runs(Tail(s), A, least, new)

\* c.isprintable() or c in "\n\t", over the characters of the texts
Unprintable == {"\r"}

normalize_text(raw_) ==
  LET t1 == collapse_repeats(raw_)
      t2 == sub_runs(t1, {" ", "\t"}, 1, <<" ">>)
      t3 == sub_runs(t2, {"\n"}, 2, <<"\n">>)
  IN SelectSeq(t3, LAMBDA c : c \notin Unprintable)

-----------------------------------------------------------------------------
(* parse_invoice_pdf (app/main.py and run_lear_pipeline.py) *)

\* dataclasses.asdict(invoice)
asdict(invoice) == [invoice EXCEPT !.kind = "dict"]

\* parser.parse(text) of an instance of a registered class
parser_parse(parser, s) ==
  CASE parser.cls.name = "LearInvoiceParser" -> LearInvoiceParser_parse(s)

\* the local variable text of parse_invoice_pdf, <<>> before it is bound
local_text(document) ==
  LET raw_text == extract_pdf_text(document)
  IN IF raw_text.kind = "raised" THEN <<>> ELSE normalize_text(raw_text.s)

\* app/main.py
main_parse_invoice_pdf(registry, document) ==
  LET raw_text == extract_pdf_text(document)
      parser   == get_parser(registry, local_text(document))
  IN IF raw_text.kind = "raised" THEN raw_text
     ELSE IF parser.kind = "raised" THEN parser
     ELSE asdict(parser_parse(parser, local_text(document)))

\* run_lear_pipeline.py
pipeline_parse_invoice_pdf(document) ==
  LET raw_text == extract_pdf_text(document)
  IN IF raw_text.kind = "raised" THEN raw_text
     ELSE asdict(LearInvoiceParser_parse(local_text(document)))

-----------------------------------------------------------------------------
(* app/invoice_parser.py: _extract_block_between and _clean_lines *)

\* s.index(sub, from): the least position from from on (positions from 1)
\* where sub stands, 0 for ValueError
index(s, sub, from) ==
  LET hits == {i \in from..(Len(s) + 1) : i + Len(sub) - 1 <= Len(s) /\ LitAt(s, i, sub, FALSE)}
  IN IF hits = {} THEN 0 ELSE Min(hits)

\* faulty variant: the end anchor is looked up from the start of the text
extract_block_between_any_end(s, start, end) ==
  LET start_idx == index(s, start, 1) + Len(start)
      end_idx   == index(s, end, 1)
  IN IF index(s, start, 1) = 0 \/ end_idx = 0 THEN <<>>
     ELSE strip(SubSeq(s, start_idx, end_idx - 1))

\* _extract_block_between
extract_block_between(s, start, end) ==
  LET start_idx == index(s, start, 1) + Len(start)
      end_idx   == index(s, end, start_idx)
  IN IF index(s, start, 1) = 0 \/ end_idx = 0 THEN <<>>
     ELSE strip(SubSeq(s, start_idx, end_idx - 1))

\* the line boundaries of str.splitlines, over the characters of the texts
LineBreaks == {"\n", "\r"}

\* s.splitlines(): "\r\n" is one boundary, a boundary at the end opens no line
RECURSIVE splitlines(_)
splitlines(s) ==
  IF s = <<>> THEN <<>>
  ELSE LET e == SkipNotIn(s, 1, LineBreaks)
           n == IF e < Len(s) /\ s[e] = "\r" /\ s[e + 1] = "\n" THEN e + 2 ELSE e + 1
       IN <<SubSeq(s, 1, e - 1)>> \o splitlines(SubSeq(s, n, Len(s)))

\* faulty variant: the lines are not stripped
clean_lines_unstripped(block) == SelectSeq(splitlines(block), LAMBDA l : l # <<>>)

\* _clean_lines
clean_lines(block) ==
  LET lines == [i \in 1..Len(splitlines(block)) |-> strip(splitlines(block)[i])]
  IN SelectSeq(lines, LAMBDA l : l # <<>>)

-----------------------------------------------------------------------------
(* app/invoice_parser.py: parse_invoice_from_text *)

G_InvoiceNumber == <<"I", "n", "v", "o", "i", "c", "e", " ", "N", "u", "m", "b", "e", "r">>

G_InvoiceDate == <<"I", "n", "v", "o", "i", "c", "e", " ", "D", "a", "t", "e">>

\* the position after ([A-Z0-9\-]+) under IGNORECASE from j
IdentEnd(s, j) == SkipIn(s, j, Letters \cup Digits \cup {"-"})

\* the position after ([A-Za-z]+\s+\d{1,2},\s+\d{4}) from j, j without a match
LongDateEnd(s, j) ==
  LET a == SkipIn(s, j, Letters)
      b == SkipIn(s, a, Whitespace)
      c == SkipIn(s, b, Digits)
      d == SkipIn(s, c + 1, Whitespace)
  IN IF /\ a > j /\ b > a
        /\ c - b \in {1, 2}
        /\ LitAt(s, c, <<",">>, FALSE)
        /\ d > c + 1
        /\ d + 3 <= Len(s)
        /\ \A k \in d..(d + 3) : s[k] \in Digits
     THEN d + 4 ELSE j

\* where group 1 starts when <label>\s+(group) matches at position i, 0 else
GenericGroupStart(label, date, s, i) ==
  IF ~LitAt(s, i, label, TRUE) THEN 0
  ELSE LET j == SkipIn(s, i + Len(label), Whitespace)
           e == IF date THEN LongDateEnd(s, j) ELSE IdentEnd(s, j)
       IN IF j > i + Len(label) /\ e > j THEN j ELSE 0

\* _extract_first(r"<label>\s+(group)", text, flags=re.IGNORECASE) or "UNKNOWN"
generic_extract_first(label, date, s) ==
  LET hits == {i \in 1..Len(s) : GenericGroupStart(label, date, s, i) > 0}
  IN IF hits = {} THEN PyStr(UNKNOWN)
     ELSE LET j == GenericGroupStart(label, date, s, Min(hits))
          IN PyStr(SubSeq(s, j, (IF date THEN LongDateEnd(s, j) ELSE IdentEnd(s, j)) - 1))

\* where group 1 starts when <label>\s*\$([\d\.]+) matches at i, 0 else
DollarStart(label, s, i) ==
  IF ~LitAt(s, i, label, TRUE) THEN 0
  ELSE LET j == SkipIn(s, i + Len(label), Whitespace)
       IN IF LitAt(s, j, <<"$">>, FALSE) /\ SkipIn(s, j + 1, Digits \cup {"."}) > j + 1
          THEN j + 1 ELSE 0

\* the nested _extract_amount(pattern) of parse_invoice_from_text
generic_extract_amount(label, s) ==
  LET hits == {i \in 1..Len(s) : DollarStart(label, s, i) > 0}
  IN IF hits = {} THEN None
     ELSE LET j == DollarStart(label, s, Min(hits))
              cleaned == replace(SubSeq(s, j, SkipIn(s, j, Digits \cup {"."}) - 1), ",", <<>>)
              f == python_float(cleaned)
          IN IF f = ValueError THEN None ELSE f

\* totals: set only when the subtotal and the total were both found
generic_totals(s) ==
  LET subtotal == generic_extract_amount(<<"S", "u", "b", " ", "T", "o", "t", "a", "l">>, s)
      tax      == generic_extract_amount(<<"T", "a", "x">>, s)
      total    == generic_extract_amount(<<"T", "o", "t", "a", "l">>, s)
  IN IF subtotal # None /\ total # None
     THEN [subtotal |-> subtotal, tax |-> or_zero(tax), total |-> total, currency |-> "USD"]
     ELSE None

\* the characters of [\d\.]
DotDigits == Digits \cup {"."}

\* \d+(?:\.\d+)?
IsQty(w) ==
  LET a == SkipIn(w, 1, Digits)
  IN a > 1 /\ (a > Len(w) \/ (w[a] = "." /\ a < Len(w) /\ SkipIn(w, a + 1, Digits) > Len(w)))

\* \$([\d\.]+)
IsDollar(w) == Len(w) >= 2 /\ w[1] = "$" /\ \A k \in 2..Len(w) : w[k] \in DotDigits

\* [0-9\.]+%?
IsPercent(w) ==
  LET a == SkipIn(w, 1, DotDigits)
  IN a > 1 /\ (a > Len(w) \/ (a = Len(w) /\ w[a] = "%"))

\* the columns of a line that line_pattern matches, <<>> for another line
GenericRowAt(line) ==
  LET c == Columns(line, SkipIn(line, 1, Whitespace), 5)
      w(k) == Column(line, c[k])
  IN IF Len(c) = 4 /\ IsQty(w(1)) /\ IsDollar(w(2)) /\ IsPercent(w(3)) /\ IsDollar(w(4))
     THEN <<w(1), Tail(w(2)), w(3), Tail(w(4))>> ELSE <<>>

\* U+2013, the dash of " – ".join(desc_parts)
EnDash == "EN DASH"

\* re.match(r"(Sub Total|Tax|Total)\b", line, re.IGNORECASE)
IsSummaryLine(line) ==
  \E lit \in {<<"S", "u", "b", " ", "T", "o", "t", "a", "l">>, <<"T", "a", "x">>, <<"T", "o", "t", "a", "l">>} :
    LitAt(line, 1, lit, TRUE) /\ WordBoundary(line, Len(lit) + 1)

\* faulty variant: the table header and the totals lines are description
\* parts as well
generic_description_any_line(all_lines, idx) ==
  LET prev_line == IF idx > 1 THEN strip(all_lines[idx - 1]) ELSE <<>>
      next_line == IF idx < Len(all_lines) THEN strip(all_lines[idx + 1]) ELSE <<>>
      prev_part == IF prev_line # <<>> THEN <<prev_line>> ELSE <<>>
      next_part == IF next_line # <<>> THEN <<next_line>> ELSE <<>>
      desc_parts == prev_part \o next_part
  IN IF desc_parts = <<>> THEN <<"I", "t", "e", "m">>
     ELSE IF Len(desc_parts) = 1 THEN desc_parts[1]
     ELSE desc_parts[1] \o <<" ", EnDash, " ">> \o desc_parts[2]

\* the description of the line item found in line idx of all_lines (from 1)
generic_description(all_lines, idx) ==
  LET prev_line == IF idx > 1 THEN strip(all_lines[idx - 1]) ELSE <<>>
      next_line == IF idx < Len(all_lines) THEN strip(all_lines[idx + 1]) ELSE <<>>
      prev_part == IF prev_line # <<>> /\ ~LitAt(lower(prev_line), 1, <<"h", "r", "s", "/", "q", "t", "y">>, FALSE)
                   THEN <<prev_line>> ELSE <<>>
      next_part == IF next_line # <<>> /\ ~IsSummaryLine(next_line)
                   THEN <<next_line>> ELSE <<>>
      desc_parts == prev_part \o next_part
  IN IF desc_parts = <<>> THEN <<"I", "t", "e", "m">>
     ELSE IF Len(desc_parts) = 1 THEN desc_parts[1]
     ELSE desc_parts[1] \o <<" ", EnDash, " ">> \o desc_parts[2]

\* the InvoiceLine of line idx; its unit_price or total is ValueError when
\* float() raises
generic_line(all_lines, idx) ==
  LET g == GenericRowAt(all_lines[idx])
  IN [description |-> generic_description(all_lines, idx),
      quantity    |-> python_float(g[1]),
      unit_price  |-> python_float(g[2]),
      total       |-> python_float(g[4])]

\* for idx, line in enumerate(all_lines): the line items from line idx on
RECURSIVE generic_lines(_, _)
generic_lines(all_lines, idx) ==
  IF idx > Len(all_lines) THEN <<>>
  ELSE (IF GenericRowAt(all_lines[idx]) = <<>> THEN <<>> ELSE <<generic_line(all_lines, idx)>>)
         \o generic_lines(all_lines, idx + 1)

\* re.split(r"\bOrder Number\b", first, flags=re.IGNORECASE)[0]
before_order_number(first) ==
  LET lit  == <<"O", "r", "d", "e", "r", " ", "N", "u", "m", "b", "e", "r">>
      hits == {i \in 1..Len(first) :
                 LitAt(first, i, lit, TRUE) /\ WordBoundary(first, i)
                   /\ WordBoundary(first, i + Len(lit))}
  IN IF hits = {} THEN first ELSE SubSeq(first, 1, Min(hits) - 1)

\* re.search(r"(Invoice Date|Due Date|Total Due)", line, re.IGNORECASE)
IsInvoiceFieldLine(line) ==
  \E lit \in {<<"I", "n", "v", "o", "i", "c", "e", " ", "D", "a", "t", "e">>, <<"D", "u", "e", " ", "D", "a", "t", "e">>, <<"T", "o", "t", "a", "l", " ", "D", "u", "e">>} :
    \E i \in 1..Len(line) : LitAt(line, i, lit, TRUE)

\* "\n".join(lines) if lines else None, with the e-mail line, when there is
\* one, as its last line
party_address(address_lines, emails) ==
  IF emails = <<>> THEN (IF address_lines = <<>> THEN None ELSE PyStr(Join(address_lines)))
  ELSE PyStr(Join(address_lines \o <<emails[Len(emails)]>>))

\* Party(name=... or default, vat=None, address=...)
Party(name, default, address) ==
  [name |-> PyStr(IF name = <<>> THEN default ELSE name), vat |-> None, address |-> address]

\* faulty variant: the invoice fields stay in the address
generic_supplier_with_fields(s) ==
  LET from_lines == clean_lines(extract_block_between(s, <<"F", "r", "o", "m", ":">>, <<"T", "o", ":">>))
      rest       == IF from_lines = <<>> THEN <<>> ELSE Tail(from_lines)
      emails     == SelectSeq(rest, LAMBDA l : contains(l, "@"))
      address    == SelectSeq(rest, LAMBDA l : ~contains(l, "@"))
  IN IF from_lines = <<>> THEN Party(<<>>, <<"S", "U", "P", "P", "L", "I", "E", "R">>, None)
     ELSE Party(strip(before_order_number(from_lines[1])), <<"S", "U", "P", "P", "L", "I", "E", "R">>,
                party_address(address, emails))

\* the supplier: the block between "From:" and "To:"
generic_supplier(s) ==
  LET from_lines == clean_lines(extract_block_between(s, <<"F", "r", "o", "m", ":">>, <<"T", "o", ":">>))
      rest       == IF from_lines = <<>> THEN <<>> ELSE Tail(from_lines)
      emails     == SelectSeq(rest, LAMBDA l : contains(l, "@"))
      address    == SelectSeq(rest, LAMBDA l : ~contains(l, "@") /\ ~IsInvoiceFieldLine(l))
  IN IF from_lines = <<>> THEN Party(<<>>, <<"S", "U", "P", "P", "L", "I", "E", "R">>, None)
     ELSE Party(strip(before_order_number(from_lines[1])), <<"S", "U", "P", "P", "L", "I", "E", "R">>,
                party_address(address, emails))

\* the customer: the block between "To:" and "Hrs/Qty"
generic_customer(s) ==
  LET to_lines == clean_lines(extract_block_between(s, <<"T", "o", ":">>, <<"H", "r", "s", "/", "Q", "t", "y">>))
      rest     == SelectSeq(IF to_lines = <<>> THEN <<>> ELSE Tail(to_lines), LAMBDA l : Len(l) # 1)
      emails   == SelectSeq(rest, LAMBDA l : contains(l, "@"))
      address  == SelectSeq(rest, LAMBDA l : ~contains(l, "@"))
  IN IF to_lines = <<>> THEN Party(<<>>, <<"C", "U", "S", "T", "O", "M", "E", "R">>, None)
     ELSE Party(to_lines[1], <<"C", "U", "S", "T", "O", "M", "E", "R">>, party_address(address, emails))

\* parse_invoice_from_text(text): the Invoice, or the ValueError of a float()
\* in the loop over the lines
parse_invoice_from_text(s) ==
  LET lines == generic_lines(splitlines(s), 1)
  IN IF \E i \in 1..Len(lines) : ValueError \in {lines[i].unit_price, lines[i].total}
     THEN Raise("ValueError")
     ELSE [kind           |-> "Invoice",
           invoice_number |-> generic_extract_first(G_InvoiceNumber, FALSE, s),
           issue_date     |-> generic_extract_first(G_InvoiceDate, TRUE, s),
           supplier       |-> generic_supplier(s),
           customer       |-> generic_customer(s),
           lines          |-> lines,
           totals         |-> generic_totals(s),
           raw_text       |-> s,
           extra          |-> <<>>]

-----------------------------------------------------------------------------
(* parse_invoices_in_folder (app/main.py and run_lear_pipeline.py) *)

\* A folder is a directory or not, with its "*.pdf" files: a document for
\* each file name. File names are numbered in their sorting order.

\* sorted(names)
RECURSIVE sorted(_)
sorted(names) == IF names = {} THEN <<>> ELSE <<Min(names)>> \o sorted(names \ {Min(names)})

\* parse_invoice_pdf of the module
parse_invoice_pdf(module, registry, document) ==
  IF module = "main" THEN main_parse_invoice_pdf(registry, document)
  ELSE pipeline_parse_invoice_pdf(document)

\* faulty variant: a failure drops the records gathered so far
try_append_reset(list, invoice) ==
  IF invoice.kind = "raised" THEN <<>> ELSE Append(list, invoice)

\* try: results.append(parse_invoice_pdf(pdf)) except Exception: print(...)
try_append(list, invoice) ==
  IF invoice.kind = "raised" THEN list ELSE Append(list, invoice)

-----------------------------------------------------------------------------
(* extract_lear_fields.py *)

\* m1(r"<label>\s*([0-9\.,]+)", label + token): group 1 stripped, or None
m1(token) ==
  LET g == NumberRun(lstrip(token))
  IN IF g = <<>> THEN None ELSE PyStr(strip(g))

float_or_None(s) == none_if_ValueError(python_float(s))

parse_decimal_amount(x) ==
  IF x = None \/ x.s = <<>> THEN None
  ELSE LET s == replace(strip(x.s), " ", <<>>)
       IN IF contains(s, ",") /\ contains(s, ".")
          THEN float_or_None(both_separators(s))
          ELSE IF contains(s, ",")
          THEN float_or_None(replace(replace(s, ".", <<>>), ",", <<".">>))
          ELSE float_or_None(replace(s, ",", <<>>))

\* the single-dot case of parse_weight
weight_single_dot(s) ==
  LET left == split_left(s, ".")
      right == split_right(s, ".")
  IN IF Len(right) = 3 /\ isdigit(left) /\ isdigit(right)
     THEN float_or_None(s)
     ELSE float_or_None(replace(s, ".", <<>>))

parse_weight(x) ==
  IF x = None \/ x.s = <<>> THEN None
  ELSE LET s == replace(strip(x.s), " ", <<>>)
           dot_count == count(s, ".")
           comma_count == count(s, ",")
       IN IF dot_count > 1 /\ comma_count = 0 THEN float_or_None(replace(s, ".", <<>>))
          ELSE IF dot_count = 1 /\ comma_count = 0 THEN weight_single_dot(s)
          ELSE IF comma_count = 1 /\ dot_count = 0 THEN float_or_None(replace(s, ",", <<".">>))
          ELSE IF comma_count > 0 /\ dot_count > 0 THEN float_or_None(both_separators(s))
          ELSE float_or_None(replace(replace(s, ",", <<>>), ".", <<>>))

\* gross_weight of extract_fields
extract_fields_gross_weight(token) == parse_weight(m1(token))

\* m1(pattern, text): group 1 of the leftmost match, stripped, or None
search_m1(label, min_ws, group, s) ==
  LET g == lear_extract_first(label, min_ws, group, s)
  IN IF g = None THEN None ELSE PyStr(strip(g.s))

L_Boxes == <<"B", "o", "x", "e", "s", ":">>

\* parse_int
parse_int(x) ==
  IF x = None \/ x.s = <<>> THEN None
  ELSE LET s == replace(replace(replace(strip(x.s), " ", <<>>), ".", <<>>), ",", <<>>)
       IN IF s # <<>> /\ \A i \in 1..Len(s) : s[i] \in Digits
          THEN PyInt(FALSE, s) ELSE None

\* the invoice_no of extract_fields: the first DM + 6 digits of the text,
\* else the header value, else None
extract_fields_invoice_no(s) ==
  LET m == first_body(s)
  IN IF m # None THEN m
     ELSE search_m1(L_InvoiceNumber, 0, "dm", s)

\* extract_fields(text, file_name), without the file name
extract_fields(s) ==
  LET pallets == parse_int(search_m1(L_Palets, 0, "num", s))
      boxes   == parse_int(search_m1(L_Boxes, 0, "num", s))
  IN [kind |-> "InvoiceExtract",
      invoice_no |-> extract_fields_invoice_no(s),
      pallets |-> pallets,
      boxes |-> boxes,
      nr_of_pack_pallets |-> IF pallets # None /\ IsPositive(pallets) THEN pallets ELSE boxes,
      gross_weight |-> parse_weight(search_m1(L_GrosWeight, 0, "num", s)),
      taxable_amount |-> parse_decimal_amount(search_m1(L_TaxableAmount, 1, "num", s)),
      total_invoice |-> parse_decimal_amount(search_m1(L_TotalInvoices, 1, "num", s))]

-----------------------------------------------------------------------------
(* Exporters of run_lear_pipeline.py *)

pipeline_to_decimal(x) ==
  IF x = None THEN None
  ELSE IF x.kind = "Decimal" THEN x
  ELSE IF x.kind \in {"int", "float"} THEN Decimal_of_str(x)
  ELSE LET norm == pipeline_normalize_number_str(x)
       IN IF norm = None \/ norm.s = <<>> THEN None
          ELSE LET d == python_Decimal(norm.s)
               IN IF d = ValueError THEN None ELSE d

fmt_csv_decimal(x, decimals, decimal_sep) ==
  LET d == pipeline_to_decimal(x)
  IN IF d = None THEN PyStr(<<>>)
     ELSE PyStr(replace(format_f(quantize_half_up(d, decimals)), ".", <<decimal_sep>>))

fmt_csv_int(x) ==
  LET d == pipeline_to_decimal(x)
  IN IF d = None THEN PyStr(<<>>)
     ELSE PyStr(str_int(python_int(quantize_half_up(d, 0))))

-----------------------------------------------------------------------------
(* Exporters of export_lear_summary.py *)

\* the separator handling of _to_decimal for a str
summary_separators(s2) ==
  IF contains(s2, ",") /\ contains(s2, ".")
  THEN LET dec_sep == IF rfind(s2, ",") > rfind(s2, ".") THEN "," ELSE "."
           thou_sep == IF dec_sep = "," THEN "." ELSE ","
       IN replace(replace(s2, thou_sep, <<>>), dec_sep, <<".">>)
  ELSE IF contains(s2, ",") /\ ~contains(s2, ".")
  THEN LET left == split_left(s2, ",")
           right == split_right(s2, ",")
       IN IF isdigit(right) /\ Len(right) = 3 /\ isdigit(left) /\ 1 <= Len(left) /\ Len(left) <= 3
          THEN left \o right
          ELSE left \o <<".">> \o right
  ELSE s2

summary_to_decimal(x) ==
  IF x = None THEN None
  ELSE IF x.kind = "Decimal" THEN x
  ELSE IF x.kind \in {"int", "float"} THEN Decimal_of_str(x)
  ELSE LET s == replace(strip(x.s), " ", <<>>)
           s2 == NUM_CLEAN_RE_sub(s)
       IN IF s = <<>> \/ s2 = <<>> THEN None
          ELSE LET d == python_Decimal(summary_separators(s2))
               IN IF d = ValueError THEN None ELSE d

to_int(x) ==
  LET d == summary_to_decimal(x)
  IN IF d = None THEN None ELSE python_int(quantize_half_up(d, 0))

to_money_2(x) ==
  LET d == summary_to_decimal(x)
  IN IF d = None THEN None ELSE quantize_half_up(d, 2)

-----------------------------------------------------------------------------
(* Input tokens *)

SeqsUpTo(A, n) == UNION {[1..k -> A] : k \in 0..n}

Separators == {".", ","}

NumSeps(s) == Cardinality({i \in 1..Len(s) : s[i] \in Separators})

\* tokens by separator shape: the digit "1", '.' and ','
ShapeTokens == {s \in SeqsUpTo({"1", ".", ","}, MaxLen) : NumSeps(s) <= MaxSeps}

\* tokens with a sign, a space or a character that is no part of a number
RawTokens == SeqsUpTo({"1", ".", ",", "-", " ", "x"}, MaxRawLen)

\* numeric tokens with digits that round differently
NumTokens == {s \in SeqsUpTo({"0", "5", ".", ","}, MaxNumLen) : NumSeps(s) <= 1}

\* the literal cases of the docstrings
LiteralTokens ==
  { <<"1", ".", "2", "0", "2", ".", "9", "3", "8">>,
    <<"7", "4", ".", "0", "5", "8">>,
    <<"1", "9", "6", ".", "4", "8", "4", "5">>,
    <<"1", "5", ".", "7", "6", "8", ",", "7", "4">>,
    <<"2", "0", ",", "4", "3", "5", ".", "6", "0">>,
    <<"5", "9", "2", ".", "8", "2", "8">>,
    <<"1", "2", "3", "4", ".", "5", "6">> }

Tokens == ShapeTokens \cup RawTokens \cup NumTokens \cup LiteralTokens

-----------------------------------------------------------------------------
(* Input texts of the Lear template *)

\* most lines of a text of line items and totals
MaxLines == 3

\* a row of the line-item table with its unit price and its total
RowLine(unit, total) ==
  <<"1", " ", "0", "1", "/", "0", "2", "/", "2", "4", " ", "D", "M", "1", " ", "a", " ", "b", " ", "c", " ", "d", " ", "V", " ", "2", " ", "P", " ">>
    \o unit \o <<" ", "1", " ">> \o total \o <<" ", "1">>

\* the line of the reported total
TotalInvoicesLine(token) == L_TotalInvoices \o <<" ">> \o token

AmountTokens ==
  { <<"8", "5", ".", "0", "0">>,
    <<"8", ".", "5", "0">>,
    <<"0", ".", "0", "0">> }

ReportedTokens ==
  { <<"9", "3", ".", "5", "0">>,
    <<"8", "5", ".", "5", "0">> }

TotalsLines ==
  {RowLine(<<"8", ".", "5", "0">>, t) : t \in AmountTokens}
    \cup {TotalInvoicesLine(t) : t \in ReportedTokens}

TotalsTexts == {Join(ls) : ls \in SeqsUpTo(TotalsLines, MaxLines)}

LearTexts == TotalsTexts

-----------------------------------------------------------------------------
(* Input texts of parse_invoice_from_text *)

\* most lines of a text of the generic layout
MaxGenericLines == 2

\* lines of an invoice of the generic layout: header fields, a description,
\* line items (one with a unit price that is no number) and totals
GenericLines ==
  { <<"I", "n", "v", "o", "i", "c", "e", " ", "N", "u", "m", "b", "e", "r", " ", "I", "N", "V", "-", "3", "3", "3", "7">>,
    <<"I", "n", "v", "o", "i", "c", "e", " ", "D", "a", "t", "e", " ", "J", "a", "n", "u", "a", "r", "y", " ", "2", "5", ",", " ", "2", "0", "1", "6">>,
    <<"I", "n", "v", "o", "i", "c", "e", " ", "D", "a", "t", "e", " ", "F", "e", "b", " ", "1", ",", " ", "2", "0", "0", "0">>,
    <<"W", "e", "b", " ", "D", "e", "s", "i", "g", "n">>,
    <<"1", ".", "0", "0", " ", "$", "8", "5", ".", "0", "0", " ", "0", ".", "0", "0", "%", " ", "$", "8", "5", ".", "0", "0">>,
    <<"1", " ", "$", "1", ".", "2", ".", "3", " ", "0", "%", " ", "$", "1">>,
    <<"S", "u", "b", " ", "T", "o", "t", "a", "l", " ", "$", "8", "5", ".", "0", "0">>,
    <<"T", "o", "t", "a", "l", " ", "$", "9", "3", ".", "5", "0">> }

GenericTexts == {Join(ls) : ls \in SeqsUpTo(GenericLines, MaxGenericLines)}

-----------------------------------------------------------------------------
(* Input texts and registries of the dispatcher *)

\* most pieces of a text handed to get_parser
MaxChunks == 2

\* most parser classes of a registry
MaxParsers == 2

\* pieces of text around the keywords
Chunks ==
  { <<"L", "e", "a", "r">>,
    <<"L", "E", "A", "R">>,
    <<"L", "e">>,
    <<"a", "r">>,
    <<"I", "n", "v", "o", "i", "c", "e", " ", "N", "u", "m", "b", "e", "r">>,
    <<"i", "n", "v", "o", "i", "c", "e">>,
    <<"x">> }

RECURSIVE Concat(_)
Concat(ss) == IF ss = <<>> THEN <<>> ELSE Head(ss) \o Concat(Tail(ss))

DispatchTexts == {Concat(cs) : cs \in SeqsUpTo(Chunks, MaxChunks)}

\* parser classes as more templates would declare them
InvoiceTemplate == [name |-> "InvoiceTemplate", KEYWORDS |-> << <<"I", "n", "v", "o", "i", "c", "e">> >>]

UpperTemplate == [name |-> "UpperTemplate", KEYWORDS |-> << <<"L", "E", "A", "R">> >>]

Templates == {LearInvoiceParser, InvoiceTemplate, UpperTemplate}

\* registries: lists of distinct parser classes, _PARSERS among them
Registries ==
  {r \in SeqsUpTo(Templates, MaxParsers) : \A i, j \in 1..Len(r) : i # j => r[i] # r[j]}

-----------------------------------------------------------------------------
(* Input documents *)

\* page texts: some pass the keyword gate of the Lear template, some only
\* once normalized, some not
PageTexts ==
  { <<>>,
    <<"x">>,
    <<" ", "\n">>,
    <<"L", "e", "a", "r">>,
    <<"L", "e", "a", "r", " ", "I", "n", "v", "o", "i", "c", "e", " ", "N", "u", "m", "b", "e", "r", ":", " ", "D", "M", "1", "2", "3", "4", "5", "6">>,
    <<"L", "e", "a", "r", " ", "I", "n", "v", "o", "i", "c", "e", " ", "N", "u", "m", "b", "e", "r", ":", " ", "D", "M", "1", "1", "1", "2", "2", "2">>,
    <<"L", "E", "A", "R", " ", "i", "n", "v", "o", "i", "c", "e", " ", "n", "u", "m", "b", "e", "r">>,
    <<"L", "e", "e", "e", "a", "r", " ", "I", "n", "v", "o", "i", "c", "e", " ", "N", "u", "m", "b", "e", "r">>,
    <<"L", "e", "a", "r", " ", " ", "I", "n", "v", "o", "i", "c", "e", " ", "N", "u", "m", "b", "e", "r", "\r">>,
    <<"I", "n", "v", "o", "i", "c", "e", " ", "N", "u", "m", "b", "e", "r", ":", " ", "D", "M", "1", "2", "3", "4", "5", "6", " ", "0", "1", "/", "0", "2", "/", "2", "0", "2", "4">> }

\* what an extractor gives for a document
Extractions == {PyStr(t) : t \in PageTexts} \cup {Raise("Exception")}

Documents ==
  {[pdfplumber |-> a, pypdf |-> b] : a \in Extractions, b \in Extractions \cup {None}}

-----------------------------------------------------------------------------
(* Input folders *)

\* most files of a folder
MaxFiles == 3

\* documents of a folder: two Lear invoices, a document of another layout
\* and a file no extractor can read
FolderDocuments ==
  {[pdfplumber |-> PyStr(t), pypdf |-> None] :
     t \in { <<"L", "e", "a", "r", " ", "I", "n", "v", "o", "i", "c", "e", " ", "N", "u", "m", "b", "e", "r", ":", " ", "D", "M", "1", "2", "3", "4", "5", "6">>,
             <<"L", "e", "a", "r", " ", "I", "n", "v", "o", "i", "c", "e", " ", "N", "u", "m", "b", "e", "r", ":", " ", "D", "M", "6", "5", "4", "3", "2", "1", " ", "0", "1", "/", "0", "2", "/", "2", "0", "2", "4">>,
             <<"x">> }}
    \cup {[pdfplumber |-> Raise("Exception"), pypdf |-> Raise("Exception")]}

Folders ==
  {[is_dir |-> FALSE, files |-> <<>>]}
    \cup {[is_dir |-> TRUE, files |-> f] :
            f \in UNION {[1..n -> FolderDocuments] : n \in 0..MaxFiles}}

\* The blocks handed to _extract_block_between and _clean_lines, and the
\* anchors: an anchor can overlap itself and the other anchors
MaxBlockLen == 5

BlockChars == {"a", "b", " ", "\n"}

Blocks == SeqsUpTo(BlockChars, MaxBlockLen)

Anchors == {<<"a">>, <<"a", "b">>, <<"b", "a">>}

\* Texts with invoice numbers in the header and in the body, and with dates:
\* a header of the expected shape, a header one digit short, two body
\* occurrences, two lines with a date and no invoice number
MaxIdLines == 2

IdLines ==
  { L_InvoiceNumber \o <<" ", "D", "M", "2", "2", "2", "2", "2", "2">>,
    L_InvoiceNumber \o <<" ", "D", "M", "2", "2", "2", "2", "2">>,
    <<"D", "M", "1", "1", "1", "1", "1", "1">>,
    <<"x", " ", "D", "M", "3", "3", "3", "3", "3", "3">>,
    <<"5", "/", "6", "/", "2", "0", "2", "5">>,
    L_Palets \o <<" ", "2", " ", "0", "3", "/", "0", "4", "/", "2", "0", "2", "4">> }

IdTexts == {Join(ls) : ls \in SeqsUpTo(IdLines, MaxIdLines)}

\* Texts with a supplier block and a customer block: "From:", the lines of
\* the party, "To:", the same lines, "Hrs/Qty". The first line of a party is
\* a name, with or without an order number; the others are an address line,
\* an invoice field, an e-mail line, an e-mail line that also holds an
\* invoice field, and a line of one character
MaxPartyLines == 3

PartyNames ==
  { <<"A", "C", "M", "E", " ", "C", "o", "r", "p">>,
    <<"A", "C", "M", "E", " ", "o", "r", "d", "e", "r", " ", "n", "u", "m", "b", "e", "r", " ", "1">>,
    <<"O", "r", "d", "e", "r", " ", "N", "u", "m", "b", "e", "r", " ", "2">> }

PartyOthers ==
  { <<"1", " ", "M", "a", "i", "n", " ", "S", "t">>,
    <<"T", "o", "t", "a", "l", " ", "D", "u", "e", " ", "$", "9", "3", ".", "5", "0">>,
    <<"b", "i", "l", "l", "i", "n", "g", "@", "a", "c", "m", "e", ".", "c", "o", "m">>,
    <<"D", "u", "e", " ", "D", "a", "t", "e", " ", "a", "@", "b">>,
    <<"d">> }

PartyBlocks ==
  {<<>>} \cup {<<n>> \o ls : n \in PartyNames, ls \in SeqsUpTo(PartyOthers, MaxPartyLines)}

PartyText(ls) ==
  Join(<< <<"F", "r", "o", "m", ":">> >> \o ls \o << <<"T", "o", ":">> >> \o ls
         \o << <<"H", "r", "s", "/", "Q", "t", "y">> >>)

PartyTexts == {PartyText(ls) : ls \in PartyBlocks}

\* Texts with a table of line items: at most one line before the rows, up
\* to MaxItemRows rows, at most one line after them. The rows are a row of
\* the sample invoice, a row without "%" and with blanks around it, and a
\* line that lacks the discount column; the lines around them are a
\* description, the table header, a blank line and lines of the totals
MaxItemRows == 2

ItemRows ==
  { <<"1", ".", "0", "0", " ", "$", "8", "5", ".", "0", "0", " ", "0", ".", "0", "0", "%", " ", "$", "8", "5", ".", "0", "0">>,
    <<" ", "2", " ", "$", "8", ".", "5", "0", " ", "0", " ", "$", "1", "7", ".", "0", "0", " ">>,
    <<"1", " ", "$", "8", "5", ".", "0", "0", " ", "$", "8", "5", ".", "0", "0">> }

ItemBefore ==
  { <<>>,
    << <<"W", "e", "b", " ", "D", "e", "s", "i", "g", "n">> >>,
    << <<"H", "R", "S", "/", "Q", "T", "Y", " ", "R", "a", "t", "e">> >>,
    << <<" ", " ">> >> }

ItemAfter ==
  { <<>>,
    << <<"s", "a", "m", "p", "l", "e">> >>,
    << <<"S", "u", "b", " ", "T", "o", "t", "a", "l", " ", "$", "8", "5", ".", "0", "0">> >>,
    << <<"t", "a", "x", " ", "$", "8", ".", "5", "0">> >>,
    << <<"T", "o", "t", "a", "l", "s">> >>,
    << <<" ", " ">> >> }

ItemTexts ==
  {Join(b \o rows \o a) : b \in ItemBefore, rows \in SeqsUpTo(ItemRows, MaxItemRows), a \in ItemAfter}

\* Texts of rows of the Lear table: a complete row, a row that ends after
\* its twelfth column, a complete row that does not begin its line, and
\* rows whose unit price or total is a lone separator
MaxRowLines == 2

TruncatedRow ==
  <<"1", " ", "0", "1", "/", "0", "2", "/", "2", "4", " ", "D", "M", "1", " ", "a", " ", "b", " ", "c", " ", "d", " ", "T", " ", "2", " ", "P", " ", "8", ".", "5", "0", " ", "1">>

RowLines ==
  { RowLine(<<"8", ".", "5", "0">>, <<"8", "5", ".", "0", "0">>),
    TruncatedRow,
    <<"x", " ">> \o RowLine(<<"8", ".", "5", "0">>, <<"8", "5", ".", "0", "0">>),
    RowLine(<<",">>, <<"8", "5", ".", "0", "0">>),
    RowLine(<<"8", ".", "5", "0">>, <<".">>) }

RowTexts == {Join(ls) : ls \in SeqsUpTo(RowLines, MaxRowLines)}

\* Raw texts handed to normalize_text: a letter, the blank characters and a
\* carriage return, which is not printable
MaxRawTextLen == 4

RawTexts == SeqsUpTo({"a", " ", "\t", "\n", "\r"}, MaxRawTextLen)

-----------------------------------------------------------------------------
(* The state machine: one token is handed to one of the functions *)

\* a token is handed to one of the functions on numbers
InitToken ==
  /\ raw \in Tokens
  /\ pc = "start"
  /\ text = <<>>
  /\ parsers = PARSERS

\* a text is handed to one of the two parsers
InitText ==
  /\ raw = <<>>
  /\ pc = "text"
  /\ text \in LearTexts \cup GenericTexts \cup IdTexts
  /\ parsers = PARSERS

\* a text is handed to get_parser, whatever parsers are registered
InitDispatch ==
  /\ raw = <<>>
  /\ pc = "dispatch_text"
  /\ text \in DispatchTexts
  /\ parsers \in Registries

\* a document is handed to parse_invoice_pdf
InitDocument ==
  /\ raw = <<>>
  /\ pc = "document"
  /\ text = <<>>
  /\ parsers = PARSERS
  /\ pdf \in Documents

\* a folder is handed to parse_invoices_in_folder
InitFolder ==
  /\ raw = <<>>
  /\ pc = "folder"
  /\ text = <<>>
  /\ parsers = PARSERS
  /\ pdf \in Folders

\* a raw text is handed to normalize_text
InitRawText ==
  /\ raw = <<>>
  /\ pc = "raw_text"
  /\ text \in RawTexts
  /\ parsers = PARSERS

\* a text of rows is handed to LearInvoiceParser.parse
InitLearText ==
  /\ raw = <<>>
  /\ pc = "lear_text"
  /\ text \in RowTexts
  /\ parsers = PARSERS

\* a text of the generic layout is handed to parse_invoice_from_text
InitGenericText ==
  /\ raw = <<>>
  /\ pc = "generic_text"
  /\ text \in PartyTexts \cup ItemTexts
  /\ parsers = PARSERS

\* a block of text is handed to _extract_block_between or to _clean_lines
InitBlock ==
  /\ raw = <<>>
  /\ pc = "block"
  /\ text \in Blocks
  /\ parsers = PARSERS

Init ==
  /\ \/ (InitToken \/ InitText \/ InitRawText \/ InitLearText \/ InitGenericText \/ InitDispatch \/ InitBlock) /\ pdf = None
     \/ InitDocument
     \/ InitFolder
  /\ queue = <<>>
  /\ results = <<>>
  /\ val = None
  /\ out = None
  /\ rec = None

Call_normalize_number_str ==
  /\ pc = "start"
  /\ pc' = "normalize_number_str"
  /\ out' = normalize_number_str(PyStr(raw))
  /\ UNCHANGED <<raw, val>>
  /\ UNCHANGED docvars

Call_pipeline_normalize_number_str ==
  /\ pc = "start"
  /\ pc' = "pipeline_normalize_number_str"
  /\ out' = pipeline_normalize_number_str(PyStr(raw))
  /\ UNCHANGED <<raw, val>>
  /\ UNCHANGED docvars

\* the result of the normalizer is normalized once more
Call_normalize_again ==
  /\ pc = "normalize_number_str"
  /\ out # None
  /\ pc' = "normalize_twice"
  /\ val' = out
  /\ out' = normalize_number_str(out)
  /\ UNCHANGED raw
  /\ UNCHANGED docvars

Call_pipeline_normalize_again ==
  /\ pc = "pipeline_normalize_number_str"
  /\ out # None
  /\ pc' = "pipeline_normalize_twice"
  /\ val' = out
  /\ out' = pipeline_normalize_number_str(out)
  /\ UNCHANGED raw
  /\ UNCHANGED docvars

Call_parse_amount_str ==
  /\ pc = "start"
  /\ pc' = "parse_amount_str"
  /\ out' = parse_amount_str(PyStr(raw))
  /\ UNCHANGED <<raw, val>>
  /\ UNCHANGED docvars

Call_parse_decimal_amount ==
  /\ pc = "start"
  /\ pc' = "parse_decimal_amount"
  /\ out' = parse_decimal_amount(PyStr(raw))
  /\ UNCHANGED <<raw, val>>
  /\ UNCHANGED docvars

Call_parse_weight ==
  /\ pc = "start"
  /\ pc' = "parse_weight"
  /\ out' = parse_weight(PyStr(raw))
  /\ UNCHANGED <<raw, val>>
  /\ UNCHANGED docvars

\* LearInvoiceParser.parse on a text "Net Weight: <raw>" or "Gros Weight: <raw>"
Call_lear_parse_weight ==
  /\ pc = "start"
  /\ pc' = "lear_parse_weight"
  /\ out' = lear_parse_weight(raw)
  /\ UNCHANGED <<raw, val>>
  /\ UNCHANGED docvars

\* extract_fields on a text "Gros Weight: <raw>"
Call_extract_fields_gross_weight ==
  /\ pc = "start"
  /\ pc' = "extract_fields_gross_weight"
  /\ out' = extract_fields_gross_weight(raw)
  /\ UNCHANGED <<raw, val>>
  /\ UNCHANGED docvars

\* LearInvoiceParser.parse on a text "Palets: <raw>" (pages, lines alike)
Call_extract_int ==
  /\ pc = "start"
  /\ pc' = "extract_int"
  /\ val' = extract_amount(raw)
  /\ out' = extract_int(raw)
  /\ UNCHANGED raw
  /\ UNCHANGED docvars

\* the value an exporter is handed: the token itself, or a parsed field
ExporterInput ==
  /\ pc \in {"start", "lear_parse_weight", "extract_int"}
  /\ val' = IF pc = "start" THEN PyStr(raw) ELSE out

Call_fmt_csv_decimal ==
  /\ ExporterInput
  /\ \E decimals \in {2, 4} :
       /\ pc' = IF decimals = 2 THEN "fmt_csv_decimal_2" ELSE "fmt_csv_decimal_4"
       /\ out' = fmt_csv_decimal(val', decimals, ",")
  /\ UNCHANGED raw
  /\ UNCHANGED docvars

Call_fmt_csv_int ==
  /\ ExporterInput
  /\ pc' = "fmt_csv_int"
  /\ out' = fmt_csv_int(val')
  /\ UNCHANGED raw
  /\ UNCHANGED docvars

Call_to_int ==
  /\ ExporterInput
  /\ pc' = "to_int"
  /\ out' = to_int(val')
  /\ UNCHANGED raw
  /\ UNCHANGED docvars

Call_to_money_2 ==
  /\ ExporterInput
  /\ pc' = "to_money_2"
  /\ out' = to_money_2(val')
  /\ UNCHANGED raw
  /\ UNCHANGED docvars

Call_parse_invoice_from_text ==
  /\ pc \in {"text", "generic_text"}
  /\ pc' = "parse_invoice_from_text"
  /\ rec' = parse_invoice_from_text(text)
  /\ UNCHANGED <<raw, val, out, text, parsers, pdf, queue, results>>

Call_LearInvoiceParser_parse ==
  /\ pc \in {"text", "lear_text"}
  /\ pc' = "LearInvoiceParser_parse"
  /\ rec' = LearInvoiceParser_parse(text)
  /\ UNCHANGED <<raw, val, out, text, parsers, pdf, queue, results>>

Call_get_parser ==
  /\ pc = "dispatch_text"
  /\ pc' = "get_parser"
  /\ rec' = get_parser(parsers, text)
  /\ UNCHANGED <<raw, val, out, text, parsers, pdf, queue, results>>

Call_normalize_text ==
  /\ pc = "raw_text"
  /\ pc' = "normalize_text"
  /\ out' = PyStr(normalize_text(text))
  /\ UNCHANGED <<raw, val, text, rec, parsers, pdf, queue, results>>

Call_extract_pdf_text ==
  /\ pc = "document"
  /\ pc' = "extract_pdf_text"
  /\ val' = [kind |-> "tried", extractors |-> extractors_tried(pdf)]
  /\ out' = extract_pdf_text(pdf)
  /\ UNCHANGED <<raw, text, rec, parsers, pdf, queue, results>>

Call_main_parse_invoice_pdf ==
  /\ pc = "document"
  /\ pc' = "main_parse_invoice_pdf"
  /\ text' = local_text(pdf)
  /\ rec' = main_parse_invoice_pdf(parsers, pdf)
  /\ UNCHANGED <<raw, val, out, parsers, pdf, queue, results>>

Call_pipeline_parse_invoice_pdf ==
  /\ pc = "document"
  /\ pc' = "pipeline_parse_invoice_pdf"
  /\ text' = local_text(pdf)
  /\ rec' = pipeline_parse_invoice_pdf(pdf)
  /\ UNCHANGED <<raw, val, out, parsers, pdf, queue, results>>

\* parse_invoices_in_folder up to its loop: NotADirectoryError, or the sorted
\* files and an empty list
FolderCall(module) ==
  /\ pc = "folder"
  /\ IF pdf.is_dir
     THEN /\ pc' = module \o "_folder_loop"
          /\ queue' = sorted(DOMAIN pdf.files)
          /\ results' = <<>>
          /\ UNCHANGED rec
     ELSE /\ pc' = module \o "_folder_done"
          /\ rec' = Raise("NotADirectoryError")
          /\ UNCHANGED <<queue, results>>
  /\ UNCHANGED <<raw, val, out, text, parsers, pdf>>

\* one pass of the loop over the sorted files
FolderStep(module) ==
  /\ pc = module \o "_folder_loop"
  /\ queue # <<>>
  /\ results' = try_append(results, parse_invoice_pdf(module, parsers, pdf.files[Head(queue)]))
  /\ queue' = Tail(queue)
  /\ UNCHANGED <<raw, pc, val, out, text, rec, parsers, pdf>>

\* return results
FolderReturn(module) ==
  /\ pc = module \o "_folder_loop"
  /\ queue = <<>>
  /\ pc' = module \o "_folder_done"
  /\ rec' = [kind |-> "list", items |-> results]
  /\ UNCHANGED <<raw, val, out, text, parsers, pdf, queue, results>>

Call_main_parse_invoices_in_folder == FolderCall("main")

Step_main_parse_invoices_in_folder == FolderStep("main")

Return_main_parse_invoices_in_folder == FolderReturn("main")

Call_pipeline_parse_invoices_in_folder == FolderCall("pipeline")

Step_pipeline_parse_invoices_in_folder == FolderStep("pipeline")

Return_pipeline_parse_invoices_in_folder == FolderReturn("pipeline")

\* _extract_block_between(text, start, end): val keeps the two anchors
Call_extract_block_between ==
  /\ pc = "block"
  /\ pc' = "extract_block_between"
  /\ \E start \in Anchors, end \in Anchors :
       /\ val' = [kind |-> "anchors", start |-> start, end |-> end]
       /\ out' = PyStr(extract_block_between(text, start, end))
  /\ UNCHANGED <<raw, text, rec, parsers, pdf, queue, results>>

\* _clean_lines(block)
Call_clean_lines ==
  /\ pc = "block"
  /\ pc' = "clean_lines"
  /\ rec' = clean_lines(text)
  /\ UNCHANGED <<raw, val, out, text, parsers, pdf, queue, results>>

\* extract_fields(text, file_name)
Call_extract_fields ==
  /\ pc = "text"
  /\ pc' = "extract_fields"
  /\ rec' = extract_fields(text)
  /\ UNCHANGED <<raw, val, out, text, parsers, pdf, queue, results>>

Next ==
  \/ Call_normalize_number_str
  \/ Call_pipeline_normalize_number_str
  \/ Call_normalize_again
  \/ Call_pipeline_normalize_again
  \/ Call_parse_amount_str
  \/ Call_parse_decimal_amount
  \/ Call_parse_weight
  \/ Call_lear_parse_weight
  \/ Call_extract_fields_gross_weight
  \/ Call_extract_int
  \/ Call_fmt_csv_decimal
  \/ Call_fmt_csv_int
  \/ Call_to_int
  \/ Call_to_money_2
  \/ Call_LearInvoiceParser_parse
  \/ Call_parse_invoice_from_text
  \/ Call_get_parser
  \/ Call_normalize_text
  \/ Call_extract_pdf_text
  \/ Call_main_parse_invoice_pdf
  \/ Call_pipeline_parse_invoice_pdf
  \/ Call_main_parse_invoices_in_folder
  \/ Step_main_parse_invoices_in_folder
  \/ Return_main_parse_invoices_in_folder
  \/ Call_pipeline_parse_invoices_in_folder
  \/ Step_pipeline_parse_invoices_in_folder
  \/ Return_pipeline_parse_invoices_in_folder
  \/ Call_extract_block_between
  \/ Call_clean_lines
  \/ Call_extract_fields

Spec == Init /\ [][Next]_vars

-----------------------------------------------------------------------------
(* Vocabulary of the properties *)

\* every character of s is one of A
OnlyChars(s, A) == \A i \in 1..Len(s) : s[i] \in A

\* s without its characters of A
Without(s, A) == SelectSeq(s, LAMBDA c : c \notin A)

\* the positions of c in s
Positions(s, c) == {i \in 1..Len(s) : s[i] = c}

\* the positions of the separators in s
SepPositions(s) == {i \in 1..Len(s) : s[i] \in Separators}

\* the position of the only separator of s
SepAt(s) == CHOOSE i \in 1..Len(s) : s[i] \in Separators

\* the characters before and after position i
Before(s, i) == SubSeq(s, 1, i - 1)
After(s, i) == SubSeq(s, i + 1, Len(s))

\* s with every ',' written as '.'
CommaAsDot(s) == [i \in 1..Len(s) |-> IF s[i] = "," THEN "." ELSE s[i]]

\* s with every '.' written as ','
DotAsComma(s) == [i \in 1..Len(s) |-> IF s[i] = "." THEN "," ELSE s[i]]

\* a canonical decimal string: digits, optionally one '.' followed by 1 to 4 digits
CanonicalDecimal(d) ==
  /\ d # <<>>
  /\ OnlyChars(d, Digits \cup {"."})
  /\ \/ Positions(d, ".") = {}
     \/ /\ Cardinality(Positions(d, ".")) = 1
        /\ SepAt(d) >= 2
        /\ Len(d) - SepAt(d) \in 1..4

\* d has a fractional tail of exactly 3 digits after at most 3 integer digits
LooksLikeThousands(d) ==
  /\ Cardinality(SepPositions(d)) = 1
  /\ Len(d) - SepAt(d) = 3
  /\ SepAt(d) - 1 <= 3

NormalizerCalled == pc \in {"normalize_number_str", "pipeline_normalize_number_str"}

-----------------------------------------------------------------------------
(* C1 *)

\* C1 as stated: a canonical decimal string d written in EU style (',' for
\* the decimal point) normalizes to d, and d written in US style normalizes to d
C1_RoundTripBothStyles ==
  NormalizerCalled =>
    /\ (\E d \in {CommaAsDot(raw)} : CanonicalDecimal(d) /\ raw = DotAsComma(d))
         => out = PyStr(CommaAsDot(raw))
    /\ CanonicalDecimal(raw) => out = PyStr(raw)

\* C1 amended: the EU style of a canonical decimal string d normalizes to d;
\* the US style normalizes to d unless d has exactly 3 fractional digits after
\* at most 3 integer digits, and then to d without its dot
C1_RoundTrip ==
  NormalizerCalled =>
    /\ (\E d \in {CommaAsDot(raw)} : CanonicalDecimal(d) /\ raw = DotAsComma(d))
         => out = PyStr(CommaAsDot(raw))
    /\ CanonicalDecimal(raw) =>
         out = PyStr(IF LooksLikeThousands(raw) THEN Without(raw, {"."}) ELSE raw)

\* an EU-style token with 3 fractional digits has been normalized to its canonical form
C1_Witness ==
  /\ pc = "normalize_number_str"
  /\ Positions(raw, ",") # {} /\ CanonicalDecimal(CommaAsDot(raw)) /\ raw = DotAsComma(CommaAsDot(raw))
  /\ LooksLikeThousands(raw)
  /\ out = PyStr(CommaAsDot(raw))

-----------------------------------------------------------------------------
(* C2 *)

\* a token that reads both as a decimal and as a thousands grouping: digits
\* around a single separator, 1 to 3 before it and exactly 3 after it
Ambiguous(s) ==
  /\ OnlyChars(s, Digits \cup Separators)
  /\ LooksLikeThousands(s)
  /\ SepAt(s) >= 2

\* C2 as stated: an ambiguous token is never turned into a numeric value, the
\* normalizer returns null for it
C2_AmbiguousIsNull ==
  (pc \in {"normalize_number_str", "pipeline_normalize_number_str", "parse_amount_str"}
     /\ Ambiguous(raw))
    => out = None

\* C2 amended: an ambiguous token is resolved by a fixed rule and not returned
\* as null: a single '.' before exactly 3 digits is a thousands separator (it
\* is removed), a single ',' before exactly 3 digits is the decimal separator
C2_AmbiguousResolvedByRule ==
  Ambiguous(raw) =>
    /\ NormalizerCalled =>
         out = PyStr(IF raw[SepAt(raw)] = "." THEN Without(raw, {"."}) ELSE CommaAsDot(raw))
    /\ pc = "parse_amount_str" =>
         out = IF raw[SepAt(raw)] = "."
               THEN PyFloat(FALSE, Without(raw, {"."}), <<>>)
               ELSE PyFloat(FALSE, Before(raw, SepAt(raw)), After(raw, SepAt(raw)))

\* the ambiguous "74.058" has been parsed, as 74058
C2_Witness ==
  /\ pc = "parse_amount_str"
  /\ raw = <<"7", "4", ".", "0", "5", "8">>
  /\ out = PyFloat(FALSE, <<"7", "4", "0", "5", "8">>, <<>>)

-----------------------------------------------------------------------------
(* C3 *)

\* the separator that occurs last in s
LastSeparator(s) == s[CHOOSE i \in SepPositions(s) : \A j \in SepPositions(s) : j <= i]

\* s with the separator that occurs last written as '.' and every
\* occurrence of the other separator removed
LastSeparatorAsDecimal(s) ==
  LET dec == LastSeparator(s)
      kept == Without(s, Separators \ {dec})
  IN [i \in 1..Len(kept) |-> IF kept[i] = dec THEN "." ELSE kept[i]]

\* C3: for every token over digits, '.' and ',' that contains both
\* separators, the one whose last occurrence is further right is the decimal
\* separator and every occurrence of the other one is removed
C3_LastSeparatorIsDecimal ==
  (OnlyChars(raw, Digits \cup Separators)
     /\ Positions(raw, ".") # {} /\ Positions(raw, ",") # {})
    => /\ NormalizerCalled => out = PyStr(LastSeparatorAsDecimal(raw))
       /\ pc = "parse_decimal_amount" =>
            out = float_or_None(LastSeparatorAsDecimal(raw))

\* "15.768,74" has been normalized to "15768.74"
C3_Witness ==
  /\ pc = "normalize_number_str"
  /\ raw = <<"1", "5", ".", "7", "6", "8", ",", "7", "4">>
  /\ out = PyStr(<<"1", "5", "7", "6", "8", ".", "7", "4">>)

-----------------------------------------------------------------------------
(* C4 *)

-----------------------------------------------------------------------------
(* C5 *)

\* C5: a token of digits and ',' only: with more than one comma every comma
\* is removed; with exactly one comma the comma becomes the decimal point if 1
\* to 4 digits follow it, and is removed otherwise
C5_OnlyCommas ==
  (NormalizerCalled /\ OnlyChars(raw, Digits \cup {","})
     /\ Positions(raw, ",") # {} /\ raw # <<",">>)
    => out = PyStr(IF Cardinality(Positions(raw, ",")) > 1 THEN Without(raw, {","})
                   ELSE IF Len(After(raw, SepAt(raw))) \in 1..4
                        THEN Before(raw, SepAt(raw)) \o <<".">> \o After(raw, SepAt(raw))
                        ELSE Before(raw, SepAt(raw)) \o After(raw, SepAt(raw)))

\* a single comma before 5 digits has been removed
C5_Witness ==
  /\ pc = "pipeline_normalize_number_str"
  /\ raw = <<"1", ",", "1", "1", "1", "1", "1">>
  /\ out = PyStr(<<"1", "1", "1", "1", "1", "1">>)

-----------------------------------------------------------------------------
(* C6 and C7 *)

WeightExtracted == pc \in {"parse_weight", "lear_parse_weight", "extract_fields_gross_weight"}

\* digits, one dot, n digits
DecimalWithTail(s, n) ==
  /\ OnlyChars(s, Digits \cup {"."})
  /\ Cardinality(Positions(s, ".")) = 1
  /\ SepAt(s) >= 2
  /\ Len(s) - SepAt(s) = n

\* the float written by a string of digits, one dot, digits
DecimalReading(s) == PyFloat(FALSE, Before(s, SepAt(s)), After(s, SepAt(s)))

\* C6: every extraction of a weight reads a token with a single dot before
\* exactly 3 digits as a decimal
C6_ThreeDigitWeightIsDecimal ==
  (WeightExtracted /\ DecimalWithTail(raw, 3)) => out = DecimalReading(raw)

\* C7: every extraction of a weight reads a token with a single dot before
\* exactly 4 digits as a decimal
C7_FourDigitWeightIsDecimal ==
  (WeightExtracted /\ DecimalWithTail(raw, 4)) => out = DecimalReading(raw)

-----------------------------------------------------------------------------
(* C8 *)

\* the token without the characters the normalizer discards
Cleaned(s) == SelectSeq(s, LAMBDA c : c \in Digits \cup {",", ".", "-"})

\* the cleaned token is empty, a bare sign or separator, or no number after
\* the separators are resolved
Unparseable(s) ==
  \/ Cleaned(s) = <<>>
  \/ Cleaned(s) \in {<<"-">>, <<".">>, <<",">>}
  \/ ~IsNumberLiteral(resolve_separators(Cleaned(s)))

\* C8: the normalizer never raises; it returns null exactly when the cleaned
\* token is empty, is "-", "." or ",", or is no number after separator
\* resolution, and a number otherwise
C8_NullExactlyWhenUnparseable ==
  /\ NormalizerCalled =>
       ((Cleaned(raw) = <<>> \/ Cleaned(raw) \in {<<"-">>, <<".">>, <<",">>}) => out = None)
  /\ pc = "parse_amount_str" =>
       /\ out # ValueError
       /\ out = None <=> Unparseable(raw)
       /\ out # None => out.kind = "float"

\* a token that is no number after cleaning has been parsed to null
C8_Witness ==
  /\ pc = "parse_amount_str"
  /\ raw = <<"1", "-", "1">>
  /\ out = None

-----------------------------------------------------------------------------
(* C9 *)

NormalizedTwice == pc \in {"normalize_twice", "pipeline_normalize_twice"}

\* C9 as stated: normalizing a non-null result again returns it unchanged
C9_IdempotentOnEveryResult == NormalizedTwice => out = val

\* a result the normalizer leaves as it is
StableResult(r) ==
  /\ r \notin {<<>>, <<"-">>, <<".">>}
  /\ Cardinality(Positions(r, ".")) <= 1
  /\ ~(/\ Cardinality(Positions(r, ".")) = 1
       /\ Len(After(r, SepAt(r))) = 3
       /\ Len(Before(r, SepAt(r))) <= 3)

\* C9 amended: "1234.56" normalizes to itself, and normalizing a non-null
\* result r again returns r unchanged exactly when r is not empty, not a bare
\* "-" or ".", has at most one '.', and has not a single '.' with exactly 3
\* characters after it and at most 3 before it
C9_Idempotent ==
  /\ (NormalizerCalled /\ raw = <<"1", "2", "3", "4", ".", "5", "6">>) => out = PyStr(raw)
  /\ NormalizedTwice => (out = val <=> StableResult(val.s))

\* "1234.56" has been normalized twice and is unchanged
C9_Witness ==
  /\ pc = "normalize_twice"
  /\ raw = <<"1", "2", "3", "4", ".", "5", "6">>
  /\ val = PyStr(raw)
  /\ out = PyStr(raw)

-----------------------------------------------------------------------------
(* C10 *)

\* the digit string plus n
RECURSIVE AddN(_, _)
AddN(ds, n) == IF n = 0 THEN ds ELSE AddN(Inc(ds), n - 1)

\* round-half-up of the magnitude ip.fp to k fractional digits: add one half
\* of the last kept place and truncate. <<integer digits, k fractional digits>>
HalfUp(ip, fp, k) ==
  LET padded == fp \o Zeros(k + 1)
      shifted == AddN(ip \o SubSeq(padded, 1, k + 1), 5)
      r == SubSeq(shifted, 1, Len(shifted) - 1)
  IN <<SubSeq(r, 1, Len(r) - k), SubSeq(r, Len(r) - k + 1, Len(r))>>

HalfUpInt(d) == PyInt(d.neg, HalfUp(d.ip, d.fp, 0)[1])

HalfUpDecimal(d, k) == PyDecimal(d.neg, HalfUp(d.ip, d.fp, k)[1], HalfUp(d.ip, d.fp, k)[2])

\* the exporters coerce with round-half-up
ExportersRoundHalfUp ==
  /\ (pc = "fmt_csv_int" /\ pipeline_to_decimal(val) # None) =>
       out = PyStr(str_int(HalfUpInt(pipeline_to_decimal(val))))
  /\ (pc = "fmt_csv_decimal_2" /\ pipeline_to_decimal(val) # None) =>
       out = PyStr(replace(format_f(HalfUpDecimal(pipeline_to_decimal(val), 2)), ".", <<",">>))
  /\ (pc = "fmt_csv_decimal_4" /\ pipeline_to_decimal(val) # None) =>
       out = PyStr(replace(format_f(HalfUpDecimal(pipeline_to_decimal(val), 4)), ".", <<",">>))
  /\ (pc = "to_int" /\ summary_to_decimal(val) # None) =>
       out = HalfUpInt(summary_to_decimal(val))
  /\ (pc = "to_money_2" /\ summary_to_decimal(val) # None) =>
       out = HalfUpDecimal(summary_to_decimal(val), 2)

\* C10: every coercion to a fixed number of fractional digits rounds half up:
\* the integer counts of _extract_int and the exporters' results
C10_EveryCoercionRoundsHalfUp ==
  /\ (pc = "extract_int" /\ val # None) => out = HalfUpInt(val)
  /\ ExportersRoundHalfUp

-----------------------------------------------------------------------------
(* C11 *)

\* LearInvoiceParser.parse has returned the record rec for the text
LearParsed == pc = "LearInvoiceParser_parse"

\* the value of a digit sequence
RECURSIVE ToNat(_)
ToNat(ds) ==
  IF ds = <<>> THEN 0
  ELSE 10 * ToNat(SubSeq(ds, 1, Len(ds) - 1)) + DigitVal(ds[Len(ds)])

\* an amount in hundredths, its third and later decimals cut
Cents(x) == ToNat(x.ip) * 100 + ToNat(SubSeq(x.fp \o <<"0", "0">>, 1, 2))

\* the amount has no more than two decimals
IsCents(x) == x.kind = "float" /\ ~x.neg /\ Len(x.fp) <= 2

\* the totals of the line items, added up in hundredths
RECURSIVE SumCents(_)
SumCents(lines) ==
  IF lines = <<>> THEN 0 ELSE Cents(Head(lines).total) + SumCents(Tail(lines))

ReportedFound == "total_invoices_reported" \in DOMAIN rec.extra

\* C11: the total of the record is the sum of the line-item totals when that
\* sum is strictly positive, otherwise the reported "Total Invoices" amount
\* when one was found, otherwise zero
C11_TotalsPrecedence ==
  LearParsed =>
    /\ SumCents(rec.lines) > 0 =>
         IsCents(rec.totals.total) /\ Cents(rec.totals.total) = SumCents(rec.lines)
    /\ (SumCents(rec.lines) = 0 /\ ReportedFound) =>
         rec.totals.total = rec.extra.total_invoices_reported
    /\ (SumCents(rec.lines) = 0 /\ ~ReportedFound) =>
         rec.totals.total = Zero

\* two line items whose totals add up to 93.50 beside a reported 85.50: the
\* total is the sum
C11_Witness ==
  /\ LearParsed
  /\ Len(rec.lines) = 2
  /\ SumCents(rec.lines) = 9350
  /\ ReportedFound
  /\ Cents(rec.extra.total_invoices_reported) = 8550
  /\ Cents(rec.totals.total) = 9350

-----------------------------------------------------------------------------
(* C12 *)

\* a sum of line items and a reported total are both available
BothTotalsAvailable == LearParsed /\ rec.lines # <<>> /\ ReportedFound

\* |a - b|
AbsDiff(a, b) == IF a >= b THEN a - b ELSE b - a

\* the reconciliation entries of the extra dict
ReconciliationKeys == {"total_reported_diff", "total_reported_ratio", "total_mismatch_flag"}

\* C12: whenever a line-item sum and a reported total are both available,
\* extra holds their absolute difference and their ratio, and
\* total_mismatch_flag is true exactly when the difference exceeds 1% of the
\* reported total (85.00 against 93.50: flag true, total_reported_diff 8.50)
C12_Reconciliation ==
  BothTotalsAvailable =>
    LET sum      == SumCents(rec.lines)
        reported == Cents(rec.extra.total_invoices_reported)
    IN /\ ReconciliationKeys \subseteq DOMAIN rec.extra
       /\ Cents(rec.extra.total_reported_diff) = AbsDiff(sum, reported)
       /\ rec.extra.total_mismatch_flag = (100 * AbsDiff(sum, reported) > reported)

-----------------------------------------------------------------------------
(* C13 *)

\* every keyword of the template occurs in s, letter case ignored
Matches(template, s) ==
  \A n \in 1..Len(template.KEYWORDS) :
    \/ template.KEYWORDS[n] = <<>>
    \/ \E i \in 1..Len(s) : LitAt(s, i, template.KEYWORDS[n], TRUE)

\* the places of the registry whose template matches the text
Matching == {n \in 1..Len(parsers) : Matches(parsers[n], text)}

\* C13: get_parser returns the first template of the registry, in list
\* order, whose keywords all occur in the text as case-insensitive
\* substrings, also when a later template matches too
C13_FirstMatchingTemplate ==
  pc = "get_parser" =>
    /\ rec.kind = "parser" <=> Matching # {}
    /\ Matching # {} => rec.cls = parsers[Min(Matching)]

\* both templates of a registry match the text and the first is returned
C13_Witness ==
  /\ pc = "get_parser"
  /\ Len(parsers) = 2
  /\ Matching = {1, 2}
  /\ rec.kind = "parser"
  /\ rec.cls = parsers[1]
  /\ parsers[2] = LearInvoiceParser

-----------------------------------------------------------------------------
(* C14 *)

\* an entry point has returned or raised for the document; text is the text
\* it handed on, empty when the extraction failed
EntryPointDone == pc \in {"main_parse_invoice_pdf", "pipeline_parse_invoice_pdf"}

\* no registered template has all its keywords in the text
FailsEveryGate == \A n \in 1..Len(parsers) : ~Matches(parsers[n], text)

\* C14: when no template's keywords all occur in the text, no entry point
\* (parse_invoice_pdf of main.py and of run_lear_pipeline.py) produces an
\* invoice record: the call ends with an error
C14_NoRecordWithoutTemplate ==
  (EntryPointDone /\ FailsEveryGate) => rec.kind = "raised"

-----------------------------------------------------------------------------
(* C15 *)

\* one of the two parsers has been called on the text
ParserCalled == pc \in {"parse_invoice_from_text", "LearInvoiceParser_parse"}

\* C15: for every input text parse_invoice_from_text and
\* LearInvoiceParser.parse return a record and raise nothing; a field that
\* cannot be located or parsed is left out or holds its sentinel
C15_ParsersNeverRaise ==
  ParserCalled =>
    /\ rec.kind = "Invoice"
    /\ rec.invoice_number.kind = "str"
    /\ rec.issue_date.kind = "str"

-----------------------------------------------------------------------------
(* C16 *)

\* parse_invoices_in_folder of the module has returned its list
FolderDone(module) == pc = module \o "_folder_done" /\ rec.kind = "list"

\* what parse_invoice_pdf of the module does with the file of a name
Outcome(module, name) == parse_invoice_pdf(module, parsers, pdf.files[name])

\* the files of the folder that the module parses without an exception
Parsed(module) == {n \in DOMAIN pdf.files : Outcome(module, n).kind # "raised"}

\* the i-th of a set of file names, in their order
Nth(names, i) == CHOOSE n \in names : Cardinality({m \in names : m < n}) = i - 1

\* the list holds the outcomes of the parsed files and no others, in the
\* order of the file names
ListsOutcomes(outcomes, parsed) ==
  /\ Len(rec.items) = Cardinality(parsed)
  /\ \A i \in 1..Len(rec.items) : rec.items[i] = outcomes[Nth(parsed, i)]

ListsParsedFiles(module) ==
  ListsOutcomes([n \in DOMAIN pdf.files |-> Outcome(module, n)], Parsed(module))

\* C16: parse_invoices_in_folder catches the failure of a document and skips
\* it, goes on with every other document, and returns exactly the records of
\* the documents that parsed, in sorted file-name order
C16_BatchSkipsFailures ==
  \A module \in {"main", "pipeline"} : FolderDone(module) => ListsParsedFiles(module)

\* three files, the second unreadable: the list holds the records of the
\* first and of the third, in this order
C16_Witness ==
  /\ FolderDone("main")
  /\ DOMAIN pdf.files = {1, 2, 3}
  /\ Parsed("main") = {1, 3}
  /\ Len(rec.items) = 2
  /\ rec.items[1] = Outcome("main", 1)
  /\ rec.items[2] = Outcome("main", 3)
  /\ rec.items[1] # rec.items[2]

-----------------------------------------------------------------------------
(* C17: the block between two anchors *)

\* sub stands in s at position i
Occurs(s, sub, i) ==
  /\ i >= 1
  /\ i + Len(sub) - 1 <= Len(s)
  /\ \A k \in 1..Len(sub) : s[i + k - 1] = sub[k]

\* the first position from from on where sub stands in s, 0 when there is none
FirstOccurrence(s, sub, from) ==
  IF \E i \in from..Len(s) : Occurs(s, sub, i)
  THEN CHOOSE i \in from..Len(s) :
         Occurs(s, sub, i) /\ \A j \in from..(i - 1) : ~Occurs(s, sub, j)
  ELSE 0

\* s without its leading and trailing whitespace
Trimmed(s) ==
  LET solid == {i \in 1..Len(s) : s[i] \notin Whitespace}
  IN IF solid = {} THEN <<>>
     ELSE SubSeq(s, CHOOSE a \in solid : \A i \in solid : a <= i,
                    CHOOSE b \in solid : \A i \in solid : b >= i)

BlockExtracted == pc = "extract_block_between"

\* the position after the first start anchor, 0 when the text has none
AfterStart ==
  IF FirstOccurrence(text, val.start, 1) = 0 THEN 0
  ELSE FirstOccurrence(text, val.start, 1) + Len(val.start)

\* the first end anchor that begins after the end of the first start anchor
EndAfterStart == IF AfterStart = 0 THEN 0 ELSE FirstOccurrence(text, val.end, AfterStart)

\* C17: _extract_block_between returns the text between the first start
\* anchor and the first end anchor that begins after the end of that start
\* anchor, without its leading and trailing whitespace; it returns the empty
\* string when the start anchor is missing or no end anchor begins after it,
\* and it always returns a string
C17_BlockBetweenAnchors ==
  BlockExtracted =>
    /\ out.kind = "str"
    /\ out.s = IF AfterStart = 0 \/ EndAfterStart = 0 THEN <<>>
               ELSE Trimmed(SubSeq(text, AfterStart, EndAfterStart - 1))

\* two different anchors, an end anchor that begins inside the start anchor
\* and is passed over, and a block that is not empty
C17_Witness ==
  /\ BlockExtracted
  /\ val.start # val.end
  /\ \E i \in 1..(AfterStart - 1) : Occurs(text, val.end, i)
  /\ EndAfterStart # 0
  /\ out.s # <<>>

\* the end anchor stands only before the start anchor: the empty string
C17_EndOnlyBefore ==
  /\ BlockExtracted
  /\ AfterStart # 0
  /\ EndAfterStart = 0
  /\ \E i \in 1..Len(text) : Occurs(text, val.end, i)
  /\ out.s = <<>>

-----------------------------------------------------------------------------
(* C18: the lines of a block *)

LinesCleaned == pc = "clean_lines"

\* the positions that bound the lines of the text: before it, its line
\* breaks, after it
LineBounds == {0, Len(text) + 1} \cup {i \in 1..Len(text) : text[i] \in LineBreaks}

\* the k-th bound, in increasing order
LineBound(k) == CHOOSE b \in LineBounds : Cardinality({c \in LineBounds : c < b}) = k - 1

\* the k-th line of the text, trimmed
TrimmedLine(k) == Trimmed(SubSeq(text, LineBound(k) + 1, LineBound(k + 1) - 1))

\* the lines that are not empty once trimmed
Kept == {k \in 1..(Cardinality(LineBounds) - 1) : TrimmedLine(k) # <<>>}

\* the n-th kept line
NthKept(n) == CHOOSE k \in Kept : Cardinality({j \in Kept : j < k}) = n - 1

\* C18: _clean_lines returns the lines of the block, each without its
\* leading and trailing whitespace, without the lines that are empty once
\* trimmed, in the order of the block
C18_CleanLines ==
  LinesCleaned =>
    /\ Len(rec) = Cardinality(Kept)
    /\ \A n \in 1..Len(rec) : rec[n] = TrimmedLine(NthKept(n))

\* a block of three lines: one is dropped, one is trimmed, two are kept
C18_Witness ==
  /\ LinesCleaned
  /\ Cardinality(LineBounds) = 4
  /\ Len(rec) = 2
  /\ \E k \in Kept : TrimmedLine(k) # SubSeq(text, LineBound(k) + 1, LineBound(k + 1) - 1)

-----------------------------------------------------------------------------
(* C19: the invoice number, from the header or from the body *)

\* the value after the header label, None without one
HeaderValue == lear_extract_first(L_InvoiceNumber, 0, "dm", text)

\* the first DM + 6 digits of the text, None without one
BodyValue == first_body(text)

\* the invoice number by the order of precedence: a header of the expected
\* shape, the first body occurrence, the header, the sentinel
IdentifierByPrecedence ==
  IF HeaderValue # None /\ IsDM6(HeaderValue.s) THEN HeaderValue
  ELSE IF BodyValue # None THEN BodyValue
  ELSE IF HeaderValue # None THEN HeaderValue
  ELSE PyStr(UNKNOWN)

FieldsExtracted == pc = "extract_fields"

\* LearInvoiceParser.parse follows the order of precedence
C19_ParserIdentifier ==
  LearParsed => rec.invoice_number = IdentifierByPrecedence

\* a header of the expected shape after a body occurrence of another number
C19_ParserWitness ==
  /\ LearParsed
  /\ HeaderValue # None /\ IsDM6(HeaderValue.s)
  /\ BodyValue # None /\ BodyValue # HeaderValue
  /\ rec.invoice_number = HeaderValue

\* C19: the invoice number is the header value when it is DM + 6 digits,
\* otherwise the first body occurrence of DM + 6 digits, otherwise the
\* header value, otherwise "UNKNOWN": in LearInvoiceParser.parse and in
\* extract_fields
C19_IdentifierPrecedence ==
  /\ C19_ParserIdentifier
  /\ FieldsExtracted => rec.invoice_no = IdentifierByPrecedence

-----------------------------------------------------------------------------
(* C20: the invoice number and the issue date of a record *)

GenericParsed == pc = "parse_invoice_from_text"

\* a parser has returned an Invoice
RecordProduced == (LearParsed \/ GenericParsed) /\ rec.kind = "Invoice"

\* a str that is not empty
IsNonEmptyStr(x) == x.kind = "str" /\ x.s # <<>>

\* where the date pattern of the parser that ran matches in the text, and
\* where each match ends
DateMatches ==
  IF LearParsed THEN {i \in 1..Len(text) : DateEnd(text, i) > 0}
  ELSE {i \in 1..Len(text) : GenericGroupStart(G_InvoiceDate, TRUE, text, i) > 0}

\* group 1 of the date match at i
DateOf(i) ==
  IF LearParsed THEN SubSeq(text, i, DateEnd(text, i) - 1)
  ELSE LET j == GenericGroupStart(G_InvoiceDate, TRUE, text, i)
       IN SubSeq(text, j, LongDateEnd(text, j) - 1)

\* the text has an invoice number for the parser that ran
IdentifierFound ==
  IF LearParsed THEN HeaderValue # None \/ BodyValue # None
  ELSE \E i \in 1..Len(text) : GenericGroupStart(G_InvoiceNumber, FALSE, text, i) > 0

\* C20: in every record of either parser the invoice number and the issue
\* date are strings that are not empty; the invoice number is "UNKNOWN"
\* when the text has none, the issue date is "UNKNOWN" when the date
\* pattern has no match and the first match of the pattern otherwise
C20_IdentifierAndDate ==
  RecordProduced =>
    /\ IsNonEmptyStr(rec.invoice_number)
    /\ IsNonEmptyStr(rec.issue_date)
    /\ ~IdentifierFound => rec.invoice_number.s = UNKNOWN
    /\ DateMatches = {} => rec.issue_date.s = UNKNOWN
    /\ DateMatches # {} =>
         \E i \in DateMatches :
           /\ \A j \in DateMatches : i <= j
           /\ rec.issue_date.s = DateOf(i)

\* a Lear text with two different dates and no invoice number: "UNKNOWN" and
\* the first date
C20_Witness ==
  /\ RecordProduced
  /\ LearParsed
  /\ ~IdentifierFound
  /\ rec.invoice_number.s = UNKNOWN
  /\ \E i, j \in DateMatches : i < j /\ DateOf(i) # DateOf(j) /\ rec.issue_date.s = DateOf(i)

-----------------------------------------------------------------------------
(* C21: the supplier of the generic layout *)

\* parse_invoice_from_text has returned an Invoice
GenericRecord == GenericParsed /\ rec.kind = "Invoice"

\* the lines of the block between two anchors of the text
BlockLines(start, end) == clean_lines(extract_block_between(text, start, end))

FromLines == BlockLines(<<"F", "r", "o", "m", ":">>, <<"T", "o", ":">>)

\* lit stands in the line, letter case ignored
HasLabel(line, lit) ==
  \E i \in 1..(Len(line) - Len(lit) + 1) : lower(SubSeq(line, i, i + Len(lit) - 1)) = lower(lit)

\* the line holds an invoice field: Invoice Date, Due Date, Total Due
IsMetadata(line) ==
  \/ HasLabel(line, <<"I", "n", "v", "o", "i", "c", "e", " ", "D", "a", "t", "e">>)
  \/ HasLabel(line, <<"D", "u", "e", " ", "D", "a", "t", "e">>)
  \/ HasLabel(line, <<"T", "o", "t", "a", "l", " ", "D", "u", "e">>)

IsEmail(line) == \E i \in 1..Len(line) : line[i] = "@"

\* the first line up to a label "Order Number" that stands as words
NameOf(first) ==
  LET lit == <<"O", "r", "d", "e", "r", " ", "N", "u", "m", "b", "e", "r">>
      at  == {i \in 1..(Len(first) - Len(lit) + 1) :
                /\ lower(SubSeq(first, i, i + Len(lit) - 1)) = lower(lit)
                /\ (i = 1 \/ first[i - 1] \notin WordChars)
                /\ (i + Len(lit) > Len(first) \/ first[i + Len(lit)] \notin WordChars)}
  IN IF at = {} THEN Trimmed(first)
     ELSE Trimmed(SubSeq(first, 1, (CHOOSE i \in at : \A j \in at : i <= j) - 1))

\* the address of a party: the kept lines in order, then one of the e-mail
\* lines when there is one; None when nothing is left
IsAddressOf(address, kept, emails) ==
  IF kept = <<>> /\ emails = <<>> THEN address = None
  ELSE /\ address.kind = "str"
       /\ \E tail \in {<<>>} \cup {<<emails[i]>> : i \in 1..Len(emails)} :
            /\ (tail = <<>>) <=> (emails = <<>>)
            /\ address.s = Join(kept \o tail)

\* C21: the supplier's name is the first line of the block between "From:"
\* and "To:" up to a label "Order Number", "SUPPLIER" when nothing is left
\* or the block is empty; of the lines after the first, an e-mail line is
\* set apart, the lines with an invoice field (Invoice Date, Due Date, Total
\* Due) are dropped, and the address is the other lines in order followed by
\* one e-mail line when there is one
C21_Supplier ==
  GenericRecord =>
    IF FromLines = <<>>
    THEN rec.supplier.name.s = <<"S", "U", "P", "P", "L", "I", "E", "R">> /\ rec.supplier.address = None
    ELSE /\ rec.supplier.name.s =
              (IF NameOf(FromLines[1]) = <<>> THEN <<"S", "U", "P", "P", "L", "I", "E", "R">>
               ELSE NameOf(FromLines[1]))
         /\ IsAddressOf(rec.supplier.address,
                        SelectSeq(Tail(FromLines), LAMBDA l : ~IsEmail(l) /\ ~IsMetadata(l)),
                        SelectSeq(Tail(FromLines), LAMBDA l : IsEmail(l)))

\* "ACME Corp / 1 Main St / Total Due $93.50 / billing@acme.com": the name
\* is "ACME Corp", the address "1 Main St\nbilling@acme.com"
C21_Witness ==
  /\ GenericRecord
  /\ FromLines = << <<"A", "C", "M", "E", " ", "C", "o", "r", "p">>,
                    <<"1", " ", "M", "a", "i", "n", " ", "S", "t">>,
                    <<"T", "o", "t", "a", "l", " ", "D", "u", "e", " ", "$", "9", "3", ".", "5", "0">>,
                    <<"b", "i", "l", "l", "i", "n", "g", "@", "a", "c", "m", "e", ".", "c", "o", "m">> >>
  /\ rec.supplier.name.s = <<"A", "C", "M", "E", " ", "C", "o", "r", "p">>
  /\ rec.supplier.address.s =
       <<"1", " ", "M", "a", "i", "n", " ", "S", "t", "\n",
         "b", "i", "l", "l", "i", "n", "g", "@", "a", "c", "m", "e", ".", "c", "o", "m">>

\* an order number alone on the first line: the name is "SUPPLIER"
C21_SentinelReached ==
  /\ GenericRecord
  /\ FromLines # <<>>
  /\ NameOf(FromLines[1]) = <<>>
  /\ rec.supplier.name.s = <<"S", "U", "P", "P", "L", "I", "E", "R">>

-----------------------------------------------------------------------------
(* C22: the customer of the generic layout *)

ToLines == BlockLines(<<"T", "o", ":">>, <<"H", "r", "s", "/", "Q", "t", "y">>)

\* C22: the customer's name is the first line of the block between "To:"
\* and "Hrs/Qty", "CUSTOMER" when the block is empty; of the lines after the
\* first, the lines of one character and the lines with an invoice field
\* are dropped, and the address is the other lines that are no e-mail line,
\* in order, followed by one e-mail line when there is one
C22_Customer ==
  GenericRecord =>
    IF ToLines = <<>>
    THEN rec.customer.name.s = <<"C", "U", "S", "T", "O", "M", "E", "R">> /\ rec.customer.address = None
    ELSE /\ rec.customer.name.s = ToLines[1]
         /\ IsAddressOf(rec.customer.address,
                        SelectSeq(Tail(ToLines), LAMBDA l : Len(l) # 1 /\ ~IsEmail(l) /\ ~IsMetadata(l)),
                        SelectSeq(Tail(ToLines), LAMBDA l : Len(l) # 1 /\ IsEmail(l)))

-----------------------------------------------------------------------------
(* C23: the line items of the generic layout *)

\* the words of a line from position i on: its runs without whitespace
RECURSIVE WordsFrom(_, _)
WordsFrom(line, i) ==
  IF i > Len(line) THEN <<>>
  ELSE IF line[i] \in Whitespace THEN WordsFrom(line, i + 1)
  ELSE LET stops == {j \in (i + 1)..(Len(line) + 1) : j = Len(line) + 1 \/ line[j] \in Whitespace}
           e     == CHOOSE j \in stops : \A k \in stops : j <= k
       IN <<SubSeq(line, i, e - 1)>> \o WordsFrom(line, e)

IsDotDigits(w) == w # <<>> /\ \A k \in 1..Len(w) : w[k] \in Digits \cup {"."}

\* a quantity: digits, or digits, a dot and digits
QuantityShape(w) ==
  /\ IsDotDigits(w)
  /\ Cardinality({k \in 1..Len(w) : w[k] = "."}) <= 1
  /\ w[1] # "." /\ w[Len(w)] # "."

\* a price: "$" and digits and dots
PriceShape(w) == Len(w) >= 2 /\ w[1] = "$" /\ IsDotDigits(Tail(w))

\* a discount: digits and dots, with or without "%" after them
DiscountShape(w) ==
  w # <<>> /\ IsDotDigits(IF w[Len(w)] = "%" THEN SubSeq(w, 1, Len(w) - 1) ELSE w)

\* the line has the shape of a row: quantity, $unit price, discount, $total
RowShape(line) ==
  LET w == WordsFrom(line, 1)
  IN Len(w) = 4 /\ QuantityShape(w[1]) /\ PriceShape(w[2]) /\ DiscountShape(w[3]) /\ PriceShape(w[4])

\* the numbers of the lines of the text that have the shape of a row
RowNumbers == {k \in 1..(Cardinality(LineBounds) - 1) : RowShape(TrimmedLine(k))}

\* the n-th of them
RowNumber(n) == CHOOSE k \in RowNumbers : Cardinality({j \in RowNumbers : j < k}) = n - 1

StartsWith(line, lit) == Len(line) >= Len(lit) /\ lower(SubSeq(line, 1, Len(lit))) = lower(lit)

\* the line begins the totals: Sub Total, Tax or Total as a word
BeginsTotals(line) ==
  \E lit \in {<<"S", "u", "b", " ", "T", "o", "t", "a", "l">>, <<"T", "a", "x">>, <<"T", "o", "t", "a", "l">>} :
    /\ StartsWith(line, lit)
    /\ (Len(line) = Len(lit) \/ line[Len(lit) + 1] \notin WordChars)

\* the line before row k when it is not empty and not the table header
PartBefore(k) ==
  IF k > 1 /\ TrimmedLine(k - 1) # <<>>
       /\ ~StartsWith(TrimmedLine(k - 1), <<"H", "r", "s", "/", "Q", "t", "y">>)
  THEN <<TrimmedLine(k - 1)>> ELSE <<>>

\* the line after row k when it is not empty and does not begin the totals
PartAfter(k) ==
  IF k < Cardinality(LineBounds) - 1 /\ TrimmedLine(k + 1) # <<>> /\ ~BeginsTotals(TrimmedLine(k + 1))
  THEN <<TrimmedLine(k + 1)>> ELSE <<>>

DescriptionOf(parts) ==
  IF parts = <<>> THEN <<"I", "t", "e", "m">>
  ELSE IF Len(parts) = 1 THEN parts[1]
  ELSE parts[1] \o <<" ", EnDash, " ">> \o parts[2]

\* C23: the record has one line item for each line of the text that has the
\* shape of a row, in the order of the lines; its description is the line
\* before the row (when not empty and not the table header) joined by
\* " - " (an en dash) with the line after the row (when not empty and not
\* the beginning of the totals), "Item" when neither line counts, and it is
\* never empty
C23_LineItems ==
  GenericRecord =>
    /\ Len(rec.lines) = Cardinality(RowNumbers)
    /\ \A n \in 1..Len(rec.lines) :
         /\ rec.lines[n].description = DescriptionOf(PartBefore(RowNumber(n)) \o PartAfter(RowNumber(n)))
         /\ rec.lines[n].description # <<>>

\* a row between a description line and a second description line, and a
\* row between the table header and a line of the totals, named "Item"
C23_Witness ==
  /\ GenericRecord
  /\ Len(rec.lines) = 1
  /\ PartBefore(RowNumber(1)) # <<>> /\ PartAfter(RowNumber(1)) # <<>>

C23_ItemReached ==
  /\ GenericRecord
  /\ Len(rec.lines) = 1
  /\ RowNumber(1) > 1 /\ RowNumber(1) < Cardinality(LineBounds) - 1
  /\ TrimmedLine(RowNumber(1) - 1) # <<>> /\ TrimmedLine(RowNumber(1) + 1) # <<>>
  /\ rec.lines[1].description = <<"I", "t", "e", "m">>

\* two rows that follow each other: each is a part of the other's description
C23_TwoRows ==
  /\ GenericRecord
  /\ Len(rec.lines) = 2
  /\ RowNumber(2) = RowNumber(1) + 1

-----------------------------------------------------------------------------
(* C24: the line items of the Lear template *)

\* LearInvoiceParser.parse has returned an Invoice
LearRecord == LearParsed /\ rec.kind = "Invoice"

\* the k-th line of the text
TextLine(k) == SubSeq(text, LineBound(k) + 1, LineBound(k + 1) - 1)

AllIn(w, chars) == w # <<>> /\ \A i \in 1..Len(w) : w[i] \in chars

\* the line holds the whole row: index, date, DM reference, four columns,
\* vendor, quantity, "P", unit price, a number, total, a number
CompleteRow(line) ==
  LET w == WordsFrom(line, 1)
  IN /\ Len(w) >= RowColumns
     /\ AllIn(w[1], Digits)
     /\ Len(w[2]) = 8 /\ w[2][3] = "/" /\ w[2][6] = "/"
     /\ \A i \in {1, 2, 4, 5, 7, 8} : w[2][i] \in Digits
     /\ Len(w[3]) >= 3 /\ lower(SubSeq(w[3], 1, 2)) = <<"d", "m">> /\ AllIn(SubSeq(w[3], 3, Len(w[3])), Digits)
     /\ AllIn(w[9], Digits)
     /\ lower(w[10]) = <<"p">>
     /\ AllIn(w[11], Digits \cup {".", ","})
     /\ AllIn(w[12], Digits)
     /\ AllIn(w[13], Digits \cup {".", ","})
     /\ w[14][1] \in Digits

\* the numbers of the lines of the text that hold a whole row
CompleteRows == {k \in 1..(Cardinality(LineBounds) - 1) : CompleteRow(TextLine(k))}

\* the n-th of them
CompleteRowNumber(n) == CHOOSE k \in CompleteRows : Cardinality({j \in CompleteRows : j < k}) = n - 1

\* C24: the record has one line item for each line of the text that holds
\* the whole row from its start, in the order of the lines, described by
\* the vendor column of its row; a line that lacks a column of the row
\* gives no line item; extra["parsed_lines_count"] is the number of line
\* items
C24_RowsYieldItems ==
  LearRecord =>
    /\ Len(rec.lines) = Cardinality(CompleteRows)
    /\ \A n \in 1..Len(rec.lines) :
         rec.lines[n].description = WordsFrom(TextLine(CompleteRowNumber(n)), 1)[8]
    /\ rec.extra.parsed_lines_count = python_len(rec.lines)

\* extra["parsed_lines_count"] is the number of line items of the record
C24_ParsedLinesCount ==
  LearRecord => rec.extra.parsed_lines_count = python_len(rec.lines)

\* a row that ends after its twelfth column, before a complete row: the
\* record has a line item of the first row and none of the second
C24_PartialRowParsed ==
  /\ LearRecord
  /\ CompleteRows = {2}
  /\ ~CompleteRow(TextLine(1))
  /\ Len(rec.lines) = 1
  /\ rec.lines[1].description = <<"T">>

-----------------------------------------------------------------------------
(* C25: the numbers of a line item *)

\* the value is a float that is not negative
IsAmount(v) == v.kind = "float" /\ ~v.neg

\* every line of the text holds a whole row, so the n-th line item is the
\* one of the n-th line
RowsOnly == CompleteRows = 1..(Cardinality(LineBounds) - 1)

\* the n-th row of the generic layout, as words
GenericRow(n) == WordsFrom(TrimmedLine(RowNumber(n)), 1)

\* C25: the quantity, the unit price and the total of every line item are
\* the values of the tokens of its row, floats that are not negative; a
\* unit price or a total whose token is no number is not turned into 0
C25_LineItemValues ==
  /\ (LearRecord /\ RowsOnly) =>
       \A n \in 1..Len(rec.lines) :
         LET w == WordsFrom(TextLine(n), 1)
         IN /\ rec.lines[n].quantity = python_float(w[9]) /\ IsAmount(rec.lines[n].quantity)
            /\ rec.lines[n].unit_price = parse_amount_str(PyStr(w[11])) /\ IsAmount(rec.lines[n].unit_price)
            /\ rec.lines[n].total = parse_amount_str(PyStr(w[13])) /\ IsAmount(rec.lines[n].total)
  /\ GenericRecord =>
       \A n \in 1..Len(rec.lines) :
         /\ rec.lines[n].quantity = python_float(GenericRow(n)[1]) /\ IsAmount(rec.lines[n].quantity)
         /\ rec.lines[n].unit_price = python_float(Tail(GenericRow(n)[2])) /\ IsAmount(rec.lines[n].unit_price)
         /\ rec.lines[n].total = python_float(Tail(GenericRow(n)[4])) /\ IsAmount(rec.lines[n].total)

\* the same for the records of the generic layout alone
C25_GenericValues ==
  GenericRecord =>
    \A n \in 1..Len(rec.lines) :
      /\ rec.lines[n].quantity = python_float(GenericRow(n)[1]) /\ IsAmount(rec.lines[n].quantity)
      /\ rec.lines[n].unit_price = python_float(Tail(GenericRow(n)[2])) /\ IsAmount(rec.lines[n].unit_price)
      /\ rec.lines[n].total = python_float(Tail(GenericRow(n)[4])) /\ IsAmount(rec.lines[n].total)

\* a row of the Lear table whose unit price is a lone comma: the line item
\* has the unit price 0.0
C25_ZeroForNoNumber ==
  /\ LearRecord /\ RowsOnly
  /\ \E n \in 1..Len(rec.lines) :
       /\ parse_amount_str(PyStr(WordsFrom(TextLine(n), 1)[11])) = None
       /\ rec.lines[n].unit_price = Zero

-----------------------------------------------------------------------------
(* C26: the text of a document *)

TextExtracted == pc = "extract_pdf_text"

\* an extractor gave a text with a character that is no whitespace
Usable(extraction) ==
  /\ extraction.kind = "str"
  /\ \E i \in 1..Len(extraction.s) : extraction.s[i] \notin Whitespace

\* C26: extract_pdf_text opens pdfplumber first, and pypdf only after
\* pdfplumber raised or gave nothing but whitespace; it returns the text of
\* pdfplumber when that is usable, else the text of pypdf when pypdf is
\* there and its text is usable, and a returned text always has a character
\* that is no whitespace; in every other case it raises RuntimeError
C26_ExtractOrRaise ==
  TextExtracted =>
    /\ val.extractors[1] = "pdfplumber"
    /\ (Len(val.extractors) > 1) =>
         (val.extractors = <<"pdfplumber", "pypdf">> /\ ~Usable(pdf.pdfplumber))
    /\ out = (IF Usable(pdf.pdfplumber) THEN pdf.pdfplumber
              ELSE IF pdf.pypdf # None /\ Usable(pdf.pypdf) THEN pdf.pypdf
              ELSE Raise("RuntimeError"))
    /\ (out.kind = "str") => Usable(out)

\* pdfplumber gave only whitespace and pypdf a usable text: the text of
\* pypdf is returned
C26_Witness ==
  /\ TextExtracted
  /\ pdf.pdfplumber.kind = "str" /\ ~Usable(pdf.pdfplumber)
  /\ val.extractors = <<"pdfplumber", "pypdf">>
  /\ out = pdf.pypdf /\ Usable(out)

\* pdfplumber raised and pypdf gave only whitespace: RuntimeError
C26_NoUsableText ==
  /\ TextExtracted
  /\ pdf.pdfplumber.kind = "raised"
  /\ pdf.pypdf # None /\ pdf.pypdf.kind = "str" /\ ~Usable(pdf.pypdf)
  /\ out = Raise("RuntimeError")

\* pdfplumber gave no text and PdfReader is not there: RuntimeError
C26_NoFallback ==
  /\ TextExtracted
  /\ ~Usable(pdf.pdfplumber) /\ pdf.pypdf = None
  /\ val.extractors = <<"pdfplumber">>
  /\ out = Raise("RuntimeError")

-----------------------------------------------------------------------------
(* C27: the shape of a normalized text *)

Normalized == pc = "normalize_text"

\* s has n equal characters of A in a row
HasRun(s, A, n) ==
  \E i \in 1..(Len(s) - n + 1) : s[i] \in A /\ \A k \in 1..(n - 1) : s[i + k] = s[i]

\* s has n characters of A in a row, equal or not
HasStretch(s, A, n) ==
  \E i \in 1..(Len(s) - n + 1) : \A k \in 0..(n - 1) : s[i + k] \in A

\* the characters of s
Chars(s) == {s[i] : i \in 1..Len(s)}

\* C27: the text normalize_text returns has no three equal characters in a
\* row, no two spaces or tabs in a row, no two newlines in a row, and no
\* character that is not printable other than the newline and the tab
C27_NormalizedShape ==
  Normalized =>
    /\ ~HasRun(out.s, Chars(out.s), 3)
    /\ ~HasStretch(out.s, {" ", "\t"}, 2)
    /\ ~HasRun(out.s, {"\n"}, 2)
    /\ Chars(out.s) \cap Unprintable = {}

\* the same for the raw texts that have only printable characters,
\* newlines and tabs
C27_PrintableInput ==
  (Normalized /\ Chars(text) \cap Unprintable = {}) =>
    /\ ~HasRun(out.s, Chars(out.s), 3)
    /\ ~HasStretch(out.s, {" ", "\t"}, 2)
    /\ ~HasRun(out.s, {"\n"}, 2)

\* no returned text has a character that is not printable
C27_NoUnprintable == Normalized => Chars(out.s) \cap Unprintable = {}

\* two newlines around a carriage return: the text returned is two newlines
C27_NewlinesJoined ==
  /\ Normalized
  /\ text = <<"\n", "\r", "\n">>
  /\ out.s = <<"\n", "\n">>

-----------------------------------------------------------------------------
(* C28: the shape of a normalized number *)

\* one of the two _normalize_number_str has returned a string
NumberNormalized ==
  /\ pc \in {"normalize_number_str", "pipeline_normalize_number_str"}
  /\ out # None

\* how often the character c stands in s
Count(s, c) == Cardinality({i \in 1..Len(s) : s[i] = c})

\* C28: a string that _normalize_number_str returns has no "," and at most
\* one "."
C28_OneDecimalPoint ==
  NumberNormalized => (Count(out.s, ",") = 0 /\ Count(out.s, ".") <= 1)

\* no returned string has a ","
C28_NoComma == NumberNormalized => Count(out.s, ",") = 0

\* at most one "." for the tokens with one kind of separator and for the
\* tokens in which the separator that stands last stands once
C28_DecimalOnce ==
  (NumberNormalized /\ (Count(raw, ",") = 0 \/ Count(raw, ".") = 0 \/ Count(raw, LastSeparator(raw)) = 1))
    => Count(out.s, ".") <= 1

\* "1,1.1,1": the dot is removed, both commas become dots
C28_TwoPoints ==
  /\ NumberNormalized
  /\ raw = <<"1", ",", "1", ".", "1", ",", "1">>
  /\ out.s = <<"1", ".", "1", "1", ".", "1">>

-----------------------------------------------------------------------------
(* C29: numbers and identifiers under normalize_text *)

\* _normalize_number_str of lear_parser.py has returned for the token
LearNormalizerCalled == pc = "normalize_number_str"

\* the text the extractors gave for the document, before normalize_text
RawText == extract_pdf_text(pdf)

\* an identifier DM and six digits stands as a word at position i of s
IdentifierAt(s, i) ==
  /\ i + 7 <= Len(s)
  /\ s[i] = "D" /\ s[i + 1] = "M"
  /\ \A k \in 2..7 : s[i + k] \in Digits
  /\ (i = 1 \/ s[i - 1] \notin WordChars)
  /\ (i + 7 = Len(s) \/ s[i + 8] \notin WordChars)

\* the identifiers of the raw text
RawIdentifiers ==
  {SubSeq(RawText.s, i, i + 7) : i \in {j \in 1..Len(RawText.s) : IdentifierAt(RawText.s, j)}}

\* an entry point has returned the record of a document
DocumentParsed == EntryPointDone /\ rec.kind = "dict"

\* C29: the number of a token is the same before and after normalize_text:
\* normalizing the token as normalize_text returns it gives what
\* normalizing the token itself gives; and when the raw text of a document
\* has an identifier DM and six digits, the record parse_invoice_pdf
\* returns has that identifier as its invoice number
C29_Lossless ==
  /\ LearNormalizerCalled => normalize_number_str(PyStr(normalize_text(raw))) = out
  /\ (DocumentParsed /\ RawIdentifiers # {}) => rec.invoice_number.s \in RawIdentifiers

\* the same for the tokens and the identifiers without three equal
\* characters in a row
C29_NoTriples ==
  /\ (LearNormalizerCalled /\ ~HasRun(raw, Chars(raw), 3))
       => normalize_number_str(PyStr(normalize_text(raw))) = out
  /\ (DocumentParsed /\ RawIdentifiers # {} /\ \A id \in RawIdentifiers : ~HasRun(id, Digits, 3))
       => rec.invoice_number.s \in RawIdentifiers

\* "5000,00" is normalized to "5000.00", and to "50.00" after normalize_text
C29_ZerosCollapsed ==
  /\ LearNormalizerCalled
  /\ raw = <<"5", "0", "0", "0", ",", "0", "0">>
  /\ out = PyStr(<<"5", "0", "0", "0", ".", "0", "0">>)
  /\ normalize_number_str(PyStr(normalize_text(raw))) = PyStr(<<"5", "0", ".", "0", "0">>)

\* "DM111222" in the raw text: the invoice number of the record is "DM12"
C29_IdentifierCollapsed ==
  /\ DocumentParsed
  /\ RawIdentifiers = {<<"D", "M", "1", "1", "1", "2", "2", "2">>}
  /\ rec.invoice_number.s = <<"D", "M", "1", "2">>

-----------------------------------------------------------------------------
(* C30: the totals of the generic layout *)

\* line k of the text is the label and an amount: "<label> $<digits and dots>"
LabelLine(k, label) ==
  LET w == WordsFrom(TrimmedLine(k), 1)
  IN /\ Len(w) = Len(label) + 1
     /\ \A i \in 1..Len(label) : lower(w[i]) = lower(label[i])
     /\ PriceShape(w[Len(w)])

\* the numbers of the lines with the label
LabelLines(label) == {k \in 1..(Cardinality(LineBounds) - 1) : LabelLine(k, label)}

SubTotalLines == LabelLines(<< <<"S", "u", "b">>, <<"T", "o", "t", "a", "l">> >>)

TotalLines == LabelLines(<< <<"T", "o", "t", "a", "l">> >>)

TaxLines == LabelLines(<< <<"T", "a", "x">> >>)

\* the amount of the first line among ks
FirstAmount(ks) ==
  LET w == WordsFrom(TrimmedLine(Min(ks)), 1) IN python_float(Tail(w[Len(w)]))

\* C30: when a line "Sub Total $a" stands before a line "Total $b", the
\* totals of the record have subtotal a and total b; the record has totals
\* exactly when the text has both a subtotal line and a total line; the tax
\* is 0 when the text has no tax line
C30_Totals ==
  GenericRecord =>
    /\ (\E i \in SubTotalLines : \E j \in TotalLines : i < j) =>
         /\ rec.totals # None
         /\ rec.totals.subtotal = FirstAmount(SubTotalLines)
         /\ rec.totals.total = FirstAmount(TotalLines)
    /\ (rec.totals # None) <=> (SubTotalLines # {} /\ TotalLines # {})
    /\ (rec.totals # None /\ TaxLines = {}) => rec.totals.tax = Zero

\* the subtotal is the amount of the first subtotal line, and the tax is 0
\* without a tax line
C30_SubtotalAndTax ==
  (GenericRecord /\ rec.totals # None) =>
    /\ SubTotalLines # {}
    /\ rec.totals.subtotal = FirstAmount(SubTotalLines)
    /\ TaxLines = {} => rec.totals.tax = Zero

\* "Sub Total $85.00" before "Total $93.50": the total of the record is 85.0
C30_TotalIsSubtotal ==
  /\ GenericRecord
  /\ \E i \in SubTotalLines : \E j \in TotalLines : i < j
  /\ FirstAmount(TotalLines) # FirstAmount(SubTotalLines)
  /\ rec.totals.total = FirstAmount(SubTotalLines)

\* a subtotal line and no total line: the record has totals all the same
C30_TotalsWithoutTotalLine ==
  /\ GenericRecord
  /\ SubTotalLines # {} /\ TotalLines = {}
  /\ rec.totals # None

====
